---- MODULE Spec2Model ----
(***************************************************************************)
(* A model of the fast-cache eviction engines: LRU, FIFO, 2Q, LRU-K and   *)
(* the clock family (Clock/GClock, Clock-Sweep, WSClock).                  *)
(*                                                                         *)
(* One cache object is alive per behaviour.  `kind` names its engine, `c`  *)
(* is the object (its fields are those of the Go struct).  Every public    *)
(* method is one action: it runs the whole method on `c` and leaves in     *)
(* `last` the record of the call (operation, arguments, result, the        *)
(* eviction callback invocations it made, and the object before the call). *)
(* The caller then takes the result (Return) before it calls again.        *)
(* `hist` is a history variable used only by the statements about          *)
(* recency: the live keys ordered by their last touch, oldest first.       *)
(***************************************************************************)
EXTENDS Integers, Sequences, FiniteSets, TLC

VARIABLES kind, c, last, hist

vars == <<kind, c, last, hist>>

\* ---------------------------------------------------------------- bounds
\* Largest capacity a cache is built with or resized to.
MaxSize == 2
\* Number of distinct keys the callers use.
NumKeys == 3
\* Longest batch handed to AddMany / RemoveMany.
MaxBatch == 2
\* Largest promotion threshold k an LRU-K cache is built with.
MaxK == 3
\* Cap on the reference and usage counts of the clock engines (the code's
\* counts are unbounded ints).
MaxRef == 2
\* Largest WSClock ring of the scan specification: three slots are needed
\* for the hand to meet a cleared slot that is not the one it started on.
MaxRing == 3
\* Largest LFU cache of the heap specification: a heap of three entries has
\* a root with two children.
MaxHeap == 3

\* Number of threads that call a 2Q or LRU-K cache concurrently.
NumThreads == 2

Keys == 1..NumKeys
\* Two values are enough to tell an overwritten value from the old one.
Values == {"v1", "v2"}
\* struct{}{} : the only value of the 2Q ghost list.
Unit == "unit"
\* Sizes a caller may ask for: non-positive ones are rejected by the code.
Sizes == (-1)..MaxSize
\* Ratio arguments, in quarters: -1 and 5 stand for ratios outside [0, 1].
RatioArgs == (-1)..5

Nil == "nil"
\* A nil *Entry, and the Value of an empty ring slot.
NoEntry == [none |-> TRUE]
\* What a constructor returns beside its error.
NoCache == [nocache |-> TRUE]

\* ----------------------------------------------------------- small helpers
SeqToSet(s) == {s[i] : i \in 1..Len(s)}

Reverse(s) == [i \in 1..Len(s) |-> s[Len(s) + 1 - i]]

\* The sequences over S of length at most n.
SeqsUpTo(S, n) == UNION {[1..m -> S] : m \in 0..n}

\* The result of a call: the object after it, what it returned and the
\* eviction callback invocations it made, in order.
Res(obj, ret, cb) == [c |-> obj, ret |-> ret, cb |-> cb]

\* ------------------------------------------------ internal.LruList (list)
\* The doubly linked list of entries, front first.  An entry is a record
\* [Key, Value]; an *Entry pointer is modelled by the entry's key.
Entry(key, value) == [Key |-> key, Value |-> value]

ListKeys(l) == [i \in 1..Len(l) |-> l[i].Key]

ListValues(l) == [i \in 1..Len(l) |-> l[i].Value]

\* Position of the first entry with this key, 0 when there is none.
ListIndex(l, key) ==
    IF \E i \in 1..Len(l) : l[i].Key = key
    THEN CHOOSE i \in 1..Len(l) : l[i].Key = key /\ \A j \in 1..(i - 1) : l[j].Key # key
    ELSE 0

ListEntry(l, key) == l[ListIndex(l, key)]

PushFront(l, key, value) == <<Entry(key, value)>> \o l

PushBack(l, key, value) == Append(l, Entry(key, value))

ListRemove(l, key) ==
    LET i == ListIndex(l, key)
    IN IF i = 0 THEN l ELSE SubSeq(l, 1, i - 1) \o SubSeq(l, i + 1, Len(l))

MoveToFront(l, key) ==
    LET i == ListIndex(l, key)
    IN IF i = 0 THEN l ELSE <<l[i]>> \o ListRemove(l, key)

\* ent.Value = value, through the pointer the index holds.
SetValue(l, key, value) ==
    [i \in 1..Len(l) |-> IF i = ListIndex(l, key) THEN Entry(key, value) ELSE l[i]]

Front(l) == IF Len(l) = 0 THEN NoEntry ELSE l[1]

Back(l) == IF Len(l) = 0 THEN NoEntry ELSE l[Len(l)]

\* ------------------------------------------------------------------ LRU
\* lru.LRU: size, evictList, items (the keys of the map), onEvict (whether a
\* callback is registered).
NewLRUObj(size, onEvict) ==
    [size |-> size, evictList |-> <<>>, items |-> {}, onEvict |-> onEvict]

\* NewLRU: an error and no cache for a non-positive size.
NewLRU(size, onEvict) ==
    IF size <= 0 THEN [err |-> TRUE, c |-> NoCache]
    ELSE [err |-> FALSE, c |-> NewLRUObj(size, onEvict)]

LRU_Len(o) == Len(o.evictList)

LRU_removeElement(o, key) ==
    LET e == ListEntry(o.evictList, key)
    IN Res([o EXCEPT !.evictList = ListRemove(o.evictList, key),
                     !.items = o.items \ {key}],
           TRUE,
           IF o.onEvict THEN <<e>> ELSE <<>>)

LRU_removeOldest(o) ==
    IF Back(o.evictList) # NoEntry
    THEN LRU_removeElement(o, Back(o.evictList).Key)
    ELSE Res(o, TRUE, <<>>)

\* Add that never evicts: the variant the capacity statement must reject.
LRU_Add_keepAll(o, key, value) ==
    IF key \in o.items
    THEN Res([o EXCEPT !.evictList = SetValue(MoveToFront(o.evictList, key), key, value)],
             FALSE, <<>>)
    ELSE Res([o EXCEPT !.evictList = PushFront(o.evictList, key, value),
                       !.items = o.items \cup {key}], FALSE, <<>>)

LRU_Add(o, key, value) ==
    IF key \in o.items
    THEN Res([o EXCEPT !.evictList = SetValue(MoveToFront(o.evictList, key), key, value)],
             FALSE, <<>>)
    ELSE LET o1 == [o EXCEPT !.evictList = PushFront(o.evictList, key, value),
                             !.items = o.items \cup {key}]
             evict == Len(o1.evictList) > o1.size
             r == LRU_removeOldest(o1)
         IN IF evict THEN Res(r.c, TRUE, r.cb) ELSE Res(o1, FALSE, <<>>)

\* The loop of AddMany from index i on; ret counts the evictions.
RECURSIVE LRU_AddManyFrom(_, _, _, _)
LRU_AddManyFrom(o, keys, values, i) ==
    IF i > Len(keys) THEN Res(o, 0, <<>>)
    ELSE LET one == LRU_Add(o, keys[i], values[i])
             rest == LRU_AddManyFrom(one.c, keys, values, i + 1)
         IN Res(rest.c, (IF one.ret THEN 1 ELSE 0) + rest.ret, one.cb \o rest.cb)

LRU_AddMany(o, keys, values) ==
    IF Len(keys) # Len(values) THEN Res(o, 0, <<>>)
    ELSE LRU_AddManyFrom(o, keys, values, 1)

\* Get that does not move the entry: the variant the recency statement
\* must reject.
LRU_Get_noTouch(o, key) ==
    IF key \in o.items
    THEN Res(o, <<ListEntry(o.evictList, key).Value, TRUE>>, <<>>)
    ELSE Res(o, <<Nil, FALSE>>, <<>>)

LRU_Get(o, key) ==
    IF key \in o.items
    THEN Res([o EXCEPT !.evictList = MoveToFront(o.evictList, key)],
             <<ListEntry(o.evictList, key).Value, TRUE>>, <<>>)
    ELSE Res(o, <<Nil, FALSE>>, <<>>)

LRU_Contains(o, key) == Res(o, key \in o.items, <<>>)

\* Peek that moves the entry to the front: the variant the purity statement
\* must reject.
LRU_Peek_touch(o, key) ==
    IF key \in o.items
    THEN Res([o EXCEPT !.evictList = MoveToFront(o.evictList, key)],
             <<ListEntry(o.evictList, key).Value, TRUE>>, <<>>)
    ELSE Res(o, <<Nil, FALSE>>, <<>>)

LRU_Peek(o, key) ==
    IF key \in o.items
    THEN Res(o, <<ListEntry(o.evictList, key).Value, TRUE>>, <<>>)
    ELSE Res(o, <<Nil, FALSE>>, <<>>)

LRU_Remove(o, key) ==
    IF key \in o.items
    THEN LET r == LRU_removeElement(o, key) IN Res(r.c, TRUE, r.cb)
    ELSE Res(o, FALSE, <<>>)

RECURSIVE LRU_RemoveManyFrom(_, _, _)
LRU_RemoveManyFrom(o, keys, i) ==
    IF i > Len(keys) THEN Res(o, 0, <<>>)
    ELSE LET one == LRU_Remove(o, keys[i])
             rest == LRU_RemoveManyFrom(one.c, keys, i + 1)
         IN Res(rest.c, (IF one.ret THEN 1 ELSE 0) + rest.ret, one.cb \o rest.cb)

LRU_RemoveMany(o, keys) == LRU_RemoveManyFrom(o, keys, 1)

LRU_RemoveOldest(o) ==
    IF Back(o.evictList) # NoEntry
    THEN LET e == Back(o.evictList)
             r == LRU_removeElement(o, e.Key)
         IN Res(r.c, <<e.Key, e.Value, TRUE>>, r.cb)
    ELSE Res(o, <<Nil, Nil, FALSE>>, <<>>)

LRU_GetOldest(o) ==
    IF Back(o.evictList) # NoEntry
    THEN Res(o, <<Back(o.evictList).Key, Back(o.evictList).Value, TRUE>>, <<>>)
    ELSE Res(o, <<Nil, Nil, FALSE>>, <<>>)

\* A Keys that lists front to back whatever reverse is: the variant the
\* listing statement must reject.
LRU_Keys_frontFirst(o, reverse) == ListKeys(o.evictList)

\* Keys(reverse): front to back when reverse, back to front otherwise.
LRU_Keys(o, reverse) ==
    IF reverse THEN ListKeys(o.evictList) ELSE Reverse(ListKeys(o.evictList))

LRU_Values(o, reverse) ==
    IF reverse THEN ListValues(o.evictList) ELSE Reverse(ListValues(o.evictList))

\* removeOldest n times.
RECURSIVE LRU_removeOldestN(_, _)
LRU_removeOldestN(o, n) ==
    IF n <= 0 THEN Res(o, 0, <<>>)
    ELSE LET one == LRU_removeOldest(o)
             rest == LRU_removeOldestN(one.c, n - 1)
         IN Res(rest.c, 0, one.cb \o rest.cb)

\* Resize that shrinks to nothing on a non-positive size before it reports
\* the error: the variant the error statement must reject.
LRU_Resize_clamp(o, size) ==
    IF size <= 0
    THEN Res([o EXCEPT !.evictList = <<>>, !.items = {}], <<LRU_Len(o) - size, TRUE>>, <<>>)
    ELSE LET diff == IF LRU_Len(o) - size < 0 THEN 0 ELSE LRU_Len(o) - size
             r == LRU_removeOldestN(o, diff)
         IN Res([r.c EXCEPT !.size = size], <<diff, FALSE>>, r.cb)

\* Resize that lowers size without removing entries: the variant the
\* shrinking statement must reject.
LRU_Resize_keep(o, size) ==
    IF size <= 0 THEN Res(o, <<LRU_Len(o) - size, TRUE>>, <<>>)
    ELSE LET diff == IF LRU_Len(o) - size < 0 THEN 0 ELSE LRU_Len(o) - size
         IN Res([o EXCEPT !.size = size], <<diff, FALSE>>, <<>>)

\* Resize: ret is <<evicted, err>>.
LRU_Resize(o, size) ==
    IF size <= 0 THEN Res(o, <<LRU_Len(o) - size, TRUE>>, <<>>)
    ELSE LET diff == IF LRU_Len(o) - size < 0 THEN 0 ELSE LRU_Len(o) - size
             r == LRU_removeOldestN(o, diff)
         IN Res([r.c EXCEPT !.size = size], <<diff, FALSE>>, r.cb)

\* Purge: the callback once per entry (map order: any), then both emptied.
LRU_Purge(o) ==
    Res([o EXCEPT !.evictList = <<>>, !.items = {}],
        TRUE,
        IF o.onEvict THEN o.evictList ELSE <<>>)

\* LRU.MoveToFront(key), the method of the Cache interface LRU-K calls: the
\* entry, when present, becomes the newest; the value is left alone.
LRU_MoveToFront(o, key) ==
    IF key \in o.items
    THEN Res([o EXCEPT !.evictList = MoveToFront(o.evictList, key)], TRUE, <<>>)
    ELSE Res(o, FALSE, <<>>)

\* ----------------------------------------------------------------- FIFO
\* fifo.FIFO has the fields of LRU; new entries go to the back of the list
\* and the front is the end that is evicted.
NewFIFO(size, onEvict) ==
    IF size <= 0 THEN [err |-> TRUE, c |-> NoCache]
    ELSE [err |-> FALSE, c |-> NewLRUObj(size, onEvict)]

FIFO_Len(o) == Len(o.evictList)

FIFO_removeElement(o, key) ==
    LET e == ListEntry(o.evictList, key)
    IN Res([o EXCEPT !.evictList = ListRemove(o.evictList, key),
                     !.items = o.items \ {key}],
           TRUE,
           IF o.onEvict THEN <<e>> ELSE <<>>)

FIFO_removeFront(o) ==
    IF Front(o.evictList) # NoEntry
    THEN FIFO_removeElement(o, Front(o.evictList).Key)
    ELSE Res(o, TRUE, <<>>)

\* An Add that pushes a new entry even for a key already present: the
\* variant the no-duplicates statement must reject.
FIFO_Add_pushAgain(o, key, value) ==
    LET o1 == [o EXCEPT !.evictList = PushBack(o.evictList, key, value),
                        !.items = o.items \cup {key}]
        evict == Len(o1.evictList) > o1.size
        r == FIFO_removeFront(o1)
    IN IF evict THEN Res(r.c, TRUE, r.cb) ELSE Res(o1, FALSE, <<>>)

FIFO_Add(o, key, value) ==
    IF key \in o.items
    THEN Res([o EXCEPT !.evictList = SetValue(MoveToFront(o.evictList, key), key, value)],
             FALSE, <<>>)
    ELSE LET o1 == [o EXCEPT !.evictList = PushBack(o.evictList, key, value),
                             !.items = o.items \cup {key}]
             evict == Len(o1.evictList) > o1.size
             r == FIFO_removeFront(o1)
         IN IF evict THEN Res(r.c, TRUE, r.cb) ELSE Res(o1, FALSE, <<>>)

FIFO_Remove(o, key) ==
    IF key \in o.items
    THEN LET r == FIFO_removeElement(o, key) IN Res(r.c, TRUE, r.cb)
    ELSE Res(o, FALSE, <<>>)

FIFO_Get(o, key) ==
    IF key \in o.items
    THEN Res(o, <<ListEntry(o.evictList, key).Value, TRUE>>, <<>>)
    ELSE Res(o, <<Nil, FALSE>>, <<>>)

FIFO_Contains(o, key) == Res(o, key \in o.items, <<>>)

FIFO_Keys(o, reverse) ==
    IF reverse THEN ListKeys(o.evictList) ELSE Reverse(ListKeys(o.evictList))

FIFO_Values(o, reverse) ==
    IF reverse THEN ListValues(o.evictList) ELSE Reverse(ListValues(o.evictList))

RECURSIVE FIFO_removeFrontN(_, _)
FIFO_removeFrontN(o, n) ==
    IF n <= 0 THEN Res(o, 0, <<>>)
    ELSE LET one == FIFO_removeFront(o)
             rest == FIFO_removeFrontN(one.c, n - 1)
         IN Res(rest.c, 0, one.cb \o rest.cb)

FIFO_Resize(o, size) ==
    IF size <= 0 THEN Res(o, <<FIFO_Len(o) - size, TRUE>>, <<>>)
    ELSE LET diff == IF FIFO_Len(o) - size < 0 THEN 0 ELSE FIFO_Len(o) - size
             r == FIFO_removeFrontN(o, diff)
         IN Res([r.c EXCEPT !.size = size], <<diff, FALSE>>, r.cb)

\* ------------------------------------------------------------------ LFU
\* lfu.PriorityQueue: the slice of *PqEntry, q[i + 1] being Go's q[i].  An
\* entry carries the index the heap keeps in it.  referencedAt is a reading
\* of a clock that never gives the same instant twice; only its order is
\* ever read (Less), so an entry keeps the rank of its instant among the
\* entries of the queue (LFU_ranked).
PqEntry(index, key, val, referenceCount, referencedAt) ==
    [index |-> index, Key |-> key, Val |-> val,
     referenceCount |-> referenceCount, referencedAt |-> referencedAt]

\* time.Now(): later than every instant stored in the queue.
PQ_now(q) == Len(q) + 1

\* A Less whose tie-break prefers the newest entry: the variant the
\* eviction statement must reject.
PQ_Less_newestFirst(q, i, j) ==
    IF q[i + 1].referenceCount = q[j + 1].referenceCount
    THEN q[i + 1].referencedAt > q[j + 1].referencedAt
    ELSE q[i + 1].referenceCount < q[j + 1].referenceCount

PQ_Less(q, i, j) ==
    IF q[i + 1].referenceCount = q[j + 1].referenceCount
    THEN q[i + 1].referencedAt < q[j + 1].referencedAt
    ELSE q[i + 1].referenceCount < q[j + 1].referenceCount

\* A Swap that exchanges the entries without writing their new indices:
\* the variant the heap statement must reject.
PQ_Swap_staleIndex(q, i, j) ==
    IF Len(q) < 2 THEN q
    ELSE [q EXCEPT ![i + 1] = q[j + 1], ![j + 1] = q[i + 1]]

PQ_Swap(q, i, j) ==
    IF Len(q) < 2 THEN q
    ELSE [q EXCEPT ![i + 1] = [q[j + 1] EXCEPT !.index = i],
                   ![j + 1] = [q[i + 1] EXCEPT !.index = j]]

PQ_Push(q, e) == Append(q, [e EXCEPT !.index = Len(q)])

\* Pop: the queue without its last entry, and that entry (index -1).
PQ_Pop(q) ==
    IF Len(q) = 0 THEN [q |-> q, e |-> NoEntry]
    ELSE [q |-> SubSeq(q, 1, Len(q) - 1), e |-> [q[Len(q)] EXCEPT !.index = -1]]

\* container/heap up(h, j).
RECURSIVE heap_up(_, _)
heap_up(q, j) ==
    LET i == (j - 1) \div 2
    IN IF j <= 0 \/ i = j \/ ~PQ_Less(q, j, i) THEN q
       ELSE heap_up(PQ_Swap(q, i, j), i)

\* container/heap down(h, i0, n): the queue and the place the entry ended.
RECURSIVE heap_down(_, _, _)
heap_down(q, i, n) ==
    LET j1 == 2 * i + 1
        j == IF j1 + 1 < n /\ PQ_Less(q, j1 + 1, j1) THEN j1 + 1 ELSE j1
    IN IF j1 >= n THEN [q |-> q, i |-> i]
       ELSE IF ~PQ_Less(q, j, i) THEN [q |-> q, i |-> i]
       ELSE heap_down(PQ_Swap(q, i, j), j, n)

heap_Push(q, e) == heap_up(PQ_Push(q, e), Len(q))

heap_Pop(q) ==
    LET n == Len(q) - 1
    IN IF n < 0 THEN PQ_Pop(q)
       ELSE PQ_Pop(heap_down(PQ_Swap(q, 0, n), 0, n).q)

heap_Fix(q, i) ==
    LET d == heap_down(q, i, Len(q))
    IN IF d.i > i THEN d.q ELSE heap_up(q, i)

heap_Remove(q, i) ==
    LET n == Len(q) - 1
        q1 == PQ_Swap(q, i, n)
        d == heap_down(q1, i, n)
    IN IF n = i THEN PQ_Pop(q)
       ELSE PQ_Pop(IF d.i > i THEN d.q ELSE heap_up(q1, i))

\* The place in the queue of the entry items[key] points to.
PQ_At(q, key) == CHOOSE i \in 1..Len(q) : q[i].Key = key

\* e.referenced()
PQ_referenced(q, p) ==
    [q EXCEPT ![p].referenceCount = @ + 1, ![p].referencedAt = PQ_now(q)]

\* q.update(e, val)
PQ_update(q, key, val) ==
    LET p == PQ_At(q, key)
        q1 == PQ_referenced([q EXCEPT ![p].Val = val], p)
    IN heap_Fix(q1, q1[p].index)

\* The instants of the queue replaced by their ranks, oldest first.
LFU_ranked(o) ==
    [o EXCEPT !.evictList = [i \in 1..Len(o.evictList) |->
        [o.evictList[i] EXCEPT !.referencedAt =
            Cardinality({j \in 1..Len(o.evictList) :
                o.evictList[j].referencedAt <= o.evictList[i].referencedAt})]]]

NewLFU(size, onEvict) ==
    IF size <= 0 THEN [err |-> TRUE, c |-> NoCache]
    ELSE [err |-> FALSE, c |-> NewLRUObj(size, onEvict)]

LFU_Len(o) == Len(o.evictList)

\* removeElement: the minimum is popped and handed to the callback.
LFU_removeElement(o) ==
    LET r == heap_Pop(o.evictList)
    IN IF r.e = NoEntry THEN Res(o, TRUE, <<>>)
       ELSE Res([o EXCEPT !.evictList = r.q, !.items = o.items \ {r.e.Key}],
                TRUE,
                IF o.onEvict THEN <<Entry(r.e.Key, r.e.Val)>> ELSE <<>>)

LFU_Add(o, key, value) ==
    IF key \in o.items
    THEN Res(LFU_ranked([o EXCEPT !.evictList = PQ_update(o.evictList, key, value)]),
             FALSE, <<>>)
    ELSE LET evict == LFU_Len(o) = o.size
             r == IF evict THEN LFU_removeElement(o) ELSE Res(o, TRUE, <<>>)
             o1 == r.c
             e == PqEntry(0, key, value, 1, PQ_now(o.evictList))
         IN Res(LFU_ranked([o1 EXCEPT !.evictList = heap_Push(o1.evictList, e),
                                      !.items = o1.items \cup {key}]),
                evict, r.cb)

LFU_Get(o, key) ==
    IF key \in o.items
    THEN LET p == PQ_At(o.evictList, key)
             q1 == PQ_referenced(o.evictList, p)
         IN Res(LFU_ranked([o EXCEPT !.evictList = heap_Fix(q1, q1[p].index)]),
                <<o.evictList[p].Val, TRUE>>, <<>>)
    ELSE Res(o, <<Nil, FALSE>>, <<>>)

LFU_Contains(o, key) == Res(o, key \in o.items, <<>>)

\* A Remove that drops the least frequently used entry, as an eviction
\* does, whatever the key: the variant the Remove statement must reject.
LFU_Remove_evict(o, key) ==
    IF key \in o.items
    THEN LET r == LFU_removeElement(o)
         IN Res(LFU_ranked(r.c), TRUE, r.cb)
    ELSE Res(o, FALSE, <<>>)

LFU_Remove(o, key) ==
    IF key \in o.items
    THEN LET p == PQ_At(o.evictList, key)
             r == heap_Remove(o.evictList, o.evictList[p].index)
         IN Res(LFU_ranked([o EXCEPT !.evictList = r.q, !.items = o.items \ {key}]),
                TRUE, <<>>)
    ELSE Res(o, FALSE, <<>>)

\* ------------------------------------------------------------------- 2Q
\* Ratios are the float64 values q/4, q in 0..4, which are exact in binary,
\* so int(float64(size) * ratio) is the integer quotient below.
Ratios == 0..4

SubSize(size, ratio) == (size * ratio) \div 4

Default2QRecentRatio == 1

Default2QGhostEntries == 2

\* New2QParams: the three LRUs are built with sizes size, size and
\* evictSize, and a failure of any of them fails the construction.
New2QParams(size, recentRatio, ghostRatio) ==
    IF size <= 0 \/ recentRatio \notin Ratios \/ ghostRatio \notin Ratios
    THEN [err |-> TRUE, c |-> NoCache]
    ELSE LET recentSize == SubSize(size, recentRatio)
             evictSize == SubSize(size, ghostRatio)
             recent == NewLRU(size, FALSE)
             frequent == NewLRU(size, FALSE)
             recentEvict == NewLRU(evictSize, FALSE)
         IN IF recent.err \/ frequent.err \/ recentEvict.err
            THEN [err |-> TRUE, c |-> NoCache]
            ELSE [err |-> FALSE,
                  c |-> [size |-> size, recentSize |-> recentSize,
                         recentRatio |-> recentRatio, ghostRatio |-> ghostRatio,
                         recent |-> recent.c, frequent |-> frequent.c,
                         recentEvict |-> recentEvict.c]]

New2Q(size) == New2QParams(size, Default2QRecentRatio, Default2QGhostEntries)

TQ_Len(o) == LRU_Len(o.recent) + LRU_Len(o.frequent)

\* An ensureSpace that drops recent's oldest entry without recording it in
\* the ghost list: the variant the space rule must reject.
TQ_ensureSpace_dropRecent(o, recentEvict) ==
    LET recentLen == LRU_Len(o.recent)
        freqLen == LRU_Len(o.frequent)
    IN IF recentLen + freqLen < o.size THEN o
       ELSE IF recentLen > 0 /\ (recentLen > o.recentSize
                                 \/ (recentLen = o.recentSize /\ ~recentEvict))
       THEN [o EXCEPT !.recent = LRU_RemoveOldest(o.recent).c]
       ELSE [o EXCEPT !.frequent = LRU_RemoveOldest(o.frequent).c]

TQ_ensureSpace(o, recentEvict) ==
    LET recentLen == LRU_Len(o.recent)
        freqLen == LRU_Len(o.frequent)
    IN IF recentLen + freqLen < o.size THEN o
       ELSE IF recentLen > 0 /\ (recentLen > o.recentSize
                                 \/ (recentLen = o.recentSize /\ ~recentEvict))
       THEN LET r == LRU_RemoveOldest(o.recent)
            IN [o EXCEPT !.recent = r.c,
                         !.recentEvict = LRU_Add(o.recentEvict, r.ret[1], Unit).c]
       ELSE [o EXCEPT !.frequent = LRU_RemoveOldest(o.frequent).c]

\* Add that forgets the ghost list: a key found there is treated as new and
\* lands in recent.  The variant the fast-track statement must reject.
TQ_Add_noGhost(o, key, value) ==
    IF LRU_Contains(o.frequent, key).ret
    THEN Res([o EXCEPT !.frequent = LRU_Add(o.frequent, key, value).c], Nil, <<>>)
    ELSE IF LRU_Contains(o.recent, key).ret
    THEN Res([o EXCEPT !.recent = LRU_Remove(o.recent, key).c,
                       !.frequent = LRU_Add(o.frequent, key, value).c], Nil, <<>>)
    ELSE LET o1 == TQ_ensureSpace(o, FALSE)
         IN Res([o1 EXCEPT !.recent = LRU_Add(o1.recent, key, value).c], Nil, <<>>)

\* Add that promotes a key found in the ghost list without taking it out of
\* that list: the variant the disjointness statement must reject.
TQ_Add_keepGhost(o, key, value) ==
    IF LRU_Contains(o.frequent, key).ret
    THEN Res([o EXCEPT !.frequent = LRU_Add(o.frequent, key, value).c], Nil, <<>>)
    ELSE IF LRU_Contains(o.recent, key).ret
    THEN Res([o EXCEPT !.recent = LRU_Remove(o.recent, key).c,
                       !.frequent = LRU_Add(o.frequent, key, value).c], Nil, <<>>)
    ELSE IF LRU_Contains(o.recentEvict, key).ret
    THEN LET o1 == TQ_ensureSpace(o, TRUE)
         IN Res([o1 EXCEPT !.frequent = LRU_Add(o1.frequent, key, value).c], Nil, <<>>)
    ELSE LET o1 == TQ_ensureSpace(o, FALSE)
         IN Res([o1 EXCEPT !.recent = LRU_Add(o1.recent, key, value).c], Nil, <<>>)

TQ_Add(o, key, value) ==
    IF LRU_Contains(o.frequent, key).ret
    THEN Res([o EXCEPT !.frequent = LRU_Add(o.frequent, key, value).c], Nil, <<>>)
    ELSE IF LRU_Contains(o.recent, key).ret
    THEN Res([o EXCEPT !.recent = LRU_Remove(o.recent, key).c,
                       !.frequent = LRU_Add(o.frequent, key, value).c], Nil, <<>>)
    ELSE IF LRU_Contains(o.recentEvict, key).ret
    THEN LET o1 == TQ_ensureSpace(o, TRUE)
         IN Res([o1 EXCEPT !.recentEvict = LRU_Remove(o1.recentEvict, key).c,
                           !.frequent = LRU_Add(o1.frequent, key, value).c], Nil, <<>>)
    ELSE LET o1 == TQ_ensureSpace(o, FALSE)
         IN Res([o1 EXCEPT !.recent = LRU_Add(o1.recent, key, value).c], Nil, <<>>)

\* A Get that forgets the ghost entry of a key it misses: the variant the
\* statement about Get and the ghost list must reject.
TQ_Get_dropGhost(o, key) ==
    LET f == LRU_Get(o.frequent, key)
        p == LRU_Peek(o.recent, key)
    IN IF f.ret[2] THEN Res([o EXCEPT !.frequent = f.c], f.ret, <<>>)
       ELSE IF p.ret[2]
       THEN Res([o EXCEPT !.recent = LRU_Remove(o.recent, key).c,
                          !.frequent = LRU_Add(o.frequent, key, p.ret[1]).c], p.ret, <<>>)
       ELSE Res([o EXCEPT !.recentEvict = LRU_Remove(o.recentEvict, key).c],
                <<Nil, FALSE>>, <<>>)

TQ_Get(o, key) ==
    LET f == LRU_Get(o.frequent, key)
        p == LRU_Peek(o.recent, key)
    IN IF f.ret[2] THEN Res([o EXCEPT !.frequent = f.c], f.ret, <<>>)
       ELSE IF p.ret[2]
       THEN Res([o EXCEPT !.recent = LRU_Remove(o.recent, key).c,
                          !.frequent = LRU_Add(o.frequent, key, p.ret[1]).c],
                p.ret, <<>>)
       ELSE Res(o, <<Nil, FALSE>>, <<>>)

\* A Keys that lists recent before frequent: the variant the listing
\* statement must reject.
TQ_Keys_recentFirst(o, reverse) ==
    LRU_Keys(o.recent, reverse) \o LRU_Keys(o.frequent, reverse)

TQ_Keys(o, reverse) == LRU_Keys(o.frequent, reverse) \o LRU_Keys(o.recent, reverse)

TQ_Values(o, reverse) == LRU_Values(o.frequent, reverse) \o LRU_Values(o.recent, reverse)

TQ_Remove(o, key) ==
    IF LRU_Remove(o.frequent, key).ret
    THEN Res([o EXCEPT !.frequent = LRU_Remove(o.frequent, key).c], Nil, <<>>)
    ELSE IF LRU_Remove(o.recent, key).ret
    THEN Res([o EXCEPT !.recent = LRU_Remove(o.recent, key).c], Nil, <<>>)
    ELSE IF LRU_Remove(o.recentEvict, key).ret
    THEN Res([o EXCEPT !.recentEvict = LRU_Remove(o.recentEvict, key).c], Nil, <<>>)
    ELSE Res(o, Nil, <<>>)

TQ_Purge(o) ==
    Res([o EXCEPT !.recent = LRU_Purge(o.recent).c,
                  !.frequent = LRU_Purge(o.frequent).c,
                  !.recentEvict = LRU_Purge(o.recentEvict).c], Nil, <<>>)

TQ_Contains(o, key) ==
    Res(o, LRU_Contains(o.frequent, key).ret \/ LRU_Contains(o.recent, key).ret, <<>>)

TQ_Peek(o, key) ==
    LET f == LRU_Peek(o.frequent, key)
    IN IF f.ret[2] THEN Res(o, f.ret, <<>>) ELSE Res(o, LRU_Peek(o.recent, key).ret, <<>>)

\* ensureSpace(true) n times.
RECURSIVE TQ_ensureSpaceN(_, _)
TQ_ensureSpaceN(o, n) ==
    IF n <= 0 THEN o ELSE TQ_ensureSpaceN(TQ_ensureSpace(o, TRUE), n - 1)

TQ_Resize(o, size) ==
    IF size <= 0 THEN Res(o, <<TQ_Len(o) - size, TRUE>>, <<>>)
    ELSE LET recentSize == SubSize(size, o.recentRatio)
             evictSize == SubSize(size, o.ghostRatio)
             o1 == [o EXCEPT !.size = size, !.recentSize = recentSize]
             diff == IF TQ_Len(o1) - size < 0 THEN 0 ELSE TQ_Len(o1) - size
             o2 == TQ_ensureSpaceN(o1, diff)
         IN Res([o2 EXCEPT !.recent = LRU_Resize(o2.recent, size).c,
                           !.frequent = LRU_Resize(o2.frequent, size).c,
                           !.recentEvict = LRU_Resize(o2.recentEvict, evictSize).c],
                <<diff, FALSE>>, <<>>)

\* ---------------------------------------------------------------- LRU-K
\* cnt is the map key -> uint8: a function whose domain is the set of keys
\* that have an entry; reading an absent key yields 0.
CntGet(cnt, key) == IF key \in DOMAIN cnt THEN cnt[key] ELSE 0

CntInc(cnt, key) ==
    [x \in DOMAIN cnt \cup {key} |-> IF x = key THEN (CntGet(cnt, key) + 1) % 256 ELSE cnt[x]]

CntDelete(cnt, key) == [x \in DOMAIN cnt \ {key} |-> cnt[x]]

\* A constructor that does not look at k: the variant the validation
\* statement must reject.
NewLruKParams_anyK(size, recentRatio, k) ==
    IF size <= 0 \/ recentRatio \notin Ratios
    THEN [err |-> TRUE, c |-> NoCache]
    ELSE [err |-> FALSE,
          c |-> [size |-> size, recentSize |-> SubSize(size, recentRatio),
                 k |-> k, recent |-> NewLRUObj(size, FALSE), cnt |-> [x \in {} |-> 0],
                 frequent |-> NewLRUObj(size, FALSE)]]

NewLruKParams(size, recentRatio, k) ==
    IF size <= 0 \/ k <= 0 \/ recentRatio \notin Ratios
    THEN [err |-> TRUE, c |-> NoCache]
    ELSE LET recent == NewLRU(size, FALSE)
             frequent == NewLRU(size, FALSE)
         IN IF recent.err \/ frequent.err
            THEN [err |-> TRUE, c |-> NoCache]
            ELSE [err |-> FALSE,
                  c |-> [size |-> size, recentSize |-> SubSize(size, recentRatio),
                         k |-> k, recent |-> recent.c, cnt |-> [x \in {} |-> 0],
                         frequent |-> frequent.c]]

NewLruK(size, k) == NewLruKParams(size, Default2QRecentRatio, k)

LRUK_AddFreq(o, key, value) ==
    IF CntGet(o.cnt, key) >= o.k
    THEN [o EXCEPT !.recent = LRU_Remove(o.recent, key).c,
                   !.frequent = LRU_Add(o.frequent, key, value).c,
                   !.cnt = CntDelete(o.cnt, key)]
    ELSE [o EXCEPT !.recent = LRU_MoveToFront(o.recent, key).c]

LRUK_Get(o, key) ==
    LET f == LRU_Get(o.frequent, key)
        p == LRU_Peek(o.recent, key)
    IN IF f.ret[2] THEN Res([o EXCEPT !.frequent = f.c], f.ret, <<>>)
       ELSE IF p.ret[2]
       THEN Res(LRUK_AddFreq([o EXCEPT !.cnt = CntInc(o.cnt, key)], key, p.ret[1]),
                p.ret, <<>>)
       ELSE Res(o, <<Nil, FALSE>>, <<>>)

LRUK_Add(o, key, value) ==
    LET f == LRU_Get(o.frequent, key)
    IN IF f.ret[2]
       THEN Res([o EXCEPT !.frequent = LRU_Add(f.c, key, value).c], Nil, <<>>)
       ELSE LET o1 == IF LRU_Contains(o.recent, key).ret
                      THEN [o EXCEPT !.recent = LRU_MoveToFront(o.recent, key).c]
                      ELSE [o EXCEPT !.recent = LRU_Add(o.recent, key, value).c]
                o2 == [o1 EXCEPT !.cnt = CntInc(o1.cnt, key)]
            IN Res(LRUK_AddFreq(o2, key, value), Nil, <<>>)

LRUK_Len(o) == LRU_Len(o.recent) + LRU_Len(o.frequent)

LRUK_ensureSpace(o) ==
    LET recentLen == LRU_Len(o.recent)
        freqLen == LRU_Len(o.frequent)
    IN IF recentLen + freqLen < o.size THEN o
       ELSE IF recentLen > 0 /\ (recentLen > o.recentSize \/ recentLen = o.recentSize)
       THEN [o EXCEPT !.recent = LRU_RemoveOldest(o.recent).c]
       ELSE [o EXCEPT !.frequent = LRU_RemoveOldest(o.frequent).c]

RECURSIVE LRUK_ensureSpaceN(_, _)
LRUK_ensureSpaceN(o, n) ==
    IF n <= 0 THEN o ELSE LRUK_ensureSpaceN(LRUK_ensureSpace(o), n - 1)

LRUK_Resize(o, size) ==
    IF size <= 0 THEN Res(o, <<LRUK_Len(o) - size, TRUE>>, <<>>)
    ELSE LET o1 == [o EXCEPT !.size = size]
             diff == IF LRUK_Len(o1) - size < 0 THEN 0 ELSE LRUK_Len(o1) - size
             o2 == LRUK_ensureSpaceN(o1, diff)
         IN Res([o2 EXCEPT !.recent = LRU_Resize(o2.recent, size).c,
                           !.frequent = LRU_Resize(o2.frequent, size).c],
                <<diff, FALSE>>, <<>>)

LRUK_Keys(o, reverse) == LRU_Keys(o.frequent, reverse) \o LRU_Keys(o.recent, reverse)

LRUK_Values(o, reverse) == LRU_Values(o.frequent, reverse) \o LRU_Values(o.recent, reverse)

LRUK_Remove(o, key) ==
    IF LRU_Remove(o.frequent, key).ret
    THEN Res([o EXCEPT !.frequent = LRU_Remove(o.frequent, key).c], Nil, <<>>)
    ELSE IF LRU_Remove(o.recent, key).ret
    THEN Res([o EXCEPT !.recent = LRU_Remove(o.recent, key).c], Nil, <<>>)
    ELSE Res(o, Nil, <<>>)

LRUK_Purge(o) ==
    Res([o EXCEPT !.recent = LRU_Purge(o.recent).c,
                  !.frequent = LRU_Purge(o.frequent).c], Nil, <<>>)

LRUK_Contains(o, key) ==
    Res(o, LRU_Contains(o.frequent, key).ret \/ LRU_Contains(o.recent, key).ret, <<>>)

LRUK_Peek(o, key) ==
    LET f == LRU_Peek(o.frequent, key)
    IN IF f.ret[2] THEN Res(o, f.ret, <<>>) ELSE Res(o, LRU_Peek(o.recent, key).ret, <<>>)

\* --------------------------------------------------------- clock family
\* container/ring: `size` slots, numbered 1..size; slot i's Value is ring[i]
\* (Nil, or the entry stored there); a *ring.Ring pointer is a slot number.
\* head is slot 1 and never moves.
RingNext(o, i) == (i % o.size) + 1

NewRingObj(size, onEvict) ==
    [size |-> size, ring |-> [i \in 1..size |-> NoEntry], items |-> [x \in {} |-> 0],
     hand |-> 1, head |-> 1, onEvict |-> onEvict]

MapSet(m, key, v) == [x \in DOMAIN m \cup {key} |-> IF x = key THEN v ELSE m[x]]

MapDelete(m, key) == [x \in DOMAIN m \ {key} |-> m[x]]

\* The tail of every evict(): the slot under the hand, when occupied, is
\* dropped from the index and emptied.  onEvict is not called here.
\* The tail of evict without delete(c.items, entry.Key): the variant the
\* index statement must reject.
Ring_dropAtHand_keepIndex(o) ==
    IF o.ring[o.hand] # NoEntry
    THEN [o EXCEPT !.ring[o.hand] = NoEntry]
    ELSE o

Ring_dropAtHand(o) ==
    IF o.ring[o.hand] # NoEntry
    THEN [o EXCEPT !.items = MapDelete(o.items, o.ring[o.hand].Key),
                   !.ring[o.hand] = NoEntry]
    ELSE o

\* A Delete that also moves the hand past the emptied slot: the variant the
\* frame statement of Delete must reject.
Ring_Delete_advance(o, key) ==
    IF key \in DOMAIN o.items
    THEN LET o1 == [o EXCEPT !.items = MapDelete(o.items, key),
                             !.ring[o.items[key]] = NoEntry,
                             !.hand = RingNext(o, o.items[key])]
         IN Res(o1, IF o.onEvict THEN "panic" ELSE Nil, <<>>)
    ELSE Res(o, Nil, <<>>)

\* Delete, the same in the three engines: after e.Value = nil the callback's
\* arguments are read through e.Value, a nil interface, which panics.
Ring_Delete(o, key) ==
    IF key \in DOMAIN o.items
    THEN LET o1 == [o EXCEPT !.items = MapDelete(o.items, key),
                             !.ring[o.items[key]] = NoEntry]
         IN Res(o1, IF o.onEvict THEN "panic" ELSE Nil, <<>>)
    ELSE Res(o, Nil, <<>>)

Ring_Len(o) == Cardinality(DOMAIN o.items)

\* The keys of slots i, i + 1, ..., size, empty slots skipped: the loop of
\* Keys from p to the slot before head.
RECURSIVE Ring_KeysFrom(_, _)
Ring_KeysFrom(o, i) ==
    IF i > o.size THEN <<>>
    ELSE IF o.ring[i] = NoEntry THEN Ring_KeysFrom(o, i + 1)
    ELSE <<o.ring[i].Key>> \o Ring_KeysFrom(o, i + 1)

\* Clock.Keys: nothing when the head slot is empty, otherwise the head's key
\* and the keys of the occupied slots after it.
Clock_Keys(o) ==
    IF o.ring[o.head] = NoEntry THEN <<>>
    ELSE <<o.ring[o.head].Key>> \o Ring_KeysFrom(o, o.head + 1)

\* ClockSweep.Keys: the same code.
CS_Keys(o) ==
    IF o.ring[o.head] = NoEntry THEN <<>>
    ELSE <<o.ring[o.head].Key>> \o Ring_KeysFrom(o, o.head + 1)

\* WSClock.Keys: the occupied slots after the head hold *WSEntry values and
\* are read with p.Value.(*CSEntry[K, V]), a failing type assertion.
WS_Keys(o) ==
    IF o.ring[o.head] = NoEntry THEN <<>>
    ELSE IF \E i \in (o.head + 1)..o.size : o.ring[i] # NoEntry THEN "panic"
    ELSE <<o.ring[o.head].Key>>

\* ---- Clock (GClock)
CEntry(key, val, refCount) == [Key |-> key, Val |-> val, refCount |-> refCount]

NewClock(size, onEvict) ==
    IF size <= 0 THEN [err |-> TRUE, c |-> NoCache]
    ELSE [err |-> FALSE, c |-> NewRingObj(size, onEvict)]

\* A scan that stops on a slot whose count is still 1: the variant the scan
\* statement must reject.
RECURSIVE Clock_scan_early(_, _)
Clock_scan_early(o, steps) ==
    IF o.ring[o.hand] # NoEntry /\ o.ring[o.hand].refCount > 1
    THEN Clock_scan_early([o EXCEPT !.ring[o.hand].refCount = @ - 1,
                                    !.hand = RingNext(o, o.hand)], steps + 1)
    ELSE [c |-> o, steps |-> steps]

\* The scan loop of evict; steps counts its iterations.
RECURSIVE Clock_scan(_, _)
Clock_scan(o, steps) ==
    IF o.ring[o.hand] # NoEntry /\ o.ring[o.hand].refCount > 0
    THEN Clock_scan([o EXCEPT !.ring[o.hand].refCount = @ - 1,
                              !.hand = RingNext(o, o.hand)], steps + 1)
    ELSE [c |-> o, steps |-> steps]

Clock_evict(o) ==
    LET s == Clock_scan(o, 0)
    IN Res(Ring_dropAtHand(s.c), s.steps, <<>>)

Clock_Add(o, key, val) ==
    IF key \in DOMAIN o.items
    THEN Res([o EXCEPT !.ring[o.items[key]].refCount = @ + 1,
                       !.ring[o.items[key]].Val = val], Nil, <<>>)
    ELSE LET e == Clock_evict(o)
             o1 == e.c
         IN Res([o1 EXCEPT !.ring[o1.hand] = CEntry(key, val, 1),
                           !.items = MapSet(o1.items, key, o1.hand),
                           !.hand = RingNext(o1, o1.hand)], Nil, e.cb)

Clock_Get(o, key) ==
    IF key \in DOMAIN o.items
    THEN Res([o EXCEPT !.ring[o.items[key]].refCount = @ + 1],
             <<o.ring[o.items[key]].Val, TRUE>>, <<>>)
    ELSE Res(o, <<Nil, FALSE>>, <<>>)

\* ---- Clock-Sweep
CSEntry(key, val, refCount, useCount) ==
    [Key |-> key, Val |-> val, refCount |-> refCount, useCount |-> useCount]

NewClockSweep(size, onEvict) ==
    IF size <= 0 THEN [err |-> TRUE, c |-> NoCache]
    ELSE [err |-> FALSE, c |-> NewRingObj(size, onEvict)]

RECURSIVE CS_scan(_, _)
CS_scan(o, steps) ==
    IF o.ring[o.hand] = NoEntry THEN [c |-> o, steps |-> steps]
    ELSE IF o.ring[o.hand].refCount = 0
    THEN IF o.ring[o.hand].useCount > 0
         THEN CS_scan([o EXCEPT !.ring[o.hand].useCount = @ - 1,
                                !.hand = RingNext(o, o.hand)], steps + 1)
         ELSE [c |-> o, steps |-> steps]
    ELSE CS_scan([o EXCEPT !.ring[o.hand].refCount = @ - 1,
                           !.hand = RingNext(o, o.hand)], steps + 1)

CS_evict(o) ==
    LET s == CS_scan(o, 0)
    IN Res(Ring_dropAtHand(s.c), s.steps, <<>>)

CS_Add(o, key, val) ==
    IF key \in DOMAIN o.items
    THEN Res([o EXCEPT !.ring[o.items[key]].useCount = @ + 1,
                       !.ring[o.items[key]].Val = val], Nil, <<>>)
    ELSE LET e == CS_evict(o)
             o1 == e.c
         IN Res([o1 EXCEPT !.ring[o1.hand] = CSEntry(key, val, 1, 0),
                           !.items = MapSet(o1.items, key, o1.hand),
                           !.hand = RingNext(o1, o1.hand)], Nil, e.cb)

CS_Get(o, key) ==
    IF key \in DOMAIN o.items
    THEN Res([o EXCEPT !.ring[o.items[key]].useCount = @ + 1],
             <<o.ring[o.items[key]].Val, TRUE>>, <<>>)
    ELSE Res(o, <<Nil, FALSE>>, <<>>)

\* ---- WSClock
\* Time is counted in units of the aging window: limit (5 s) is one unit.
\* The code reads an entry's timestamp only in age + limit < time.Now(), so
\* the entry keeps in `age` the time elapsed since its timestamp,
\* time.Now() - age, which stops growing once it is past the window.
WSEntry(key, val, refCount, age) ==
    [Key |-> key, Val |-> val, refCount |-> refCount, age |-> age]

limit == 1

NewWSClock(size, onEvict) ==
    IF size <= 0 THEN [err |-> TRUE, c |-> NoCache]
    ELSE [err |-> FALSE, c |-> NewRingObj(size, onEvict)]

\* An aging test every entry passes: the variant the victim rule must
\* reject.
WS_aged_always(e) == TRUE

\* entry.age.Add(c.limit).Before(time.Now())
WS_aged(e) == e.age > limit

\* d units of time pass: every timestamp is d further in the past.
WS_elapse(o, d) ==
    [o EXCEPT !.ring = [i \in 1..o.size |->
        IF o.ring[i] = NoEntry THEN NoEntry
        ELSE [o.ring[i] EXCEPT !.age = IF @ + d > limit + 1 THEN limit + 1 ELSE @ + d]]]

\* The scan loop of evict, started with the hand at slot r.  A slot other
\* than r with refCount 0 that has not aged leaves the hand and the flag as
\* they are, so the loop repeats on it until time.Now() has passed
\* age + limit: `waited` is the time the scan spent doing so.
RECURSIVE WS_scan(_, _, _)
WS_scan(o, r, steps) ==
    LET e == o.ring[o.hand]
    IN IF e = NoEntry THEN [c |-> o, waited |-> 0, steps |-> steps]
       ELSE IF e.refCount = 0
       THEN IF WS_aged(e) THEN [c |-> o, waited |-> 0, steps |-> steps]
            ELSE IF o.hand = r THEN [c |-> o, waited |-> 0, steps |-> steps]
            ELSE [c |-> WS_elapse(o, limit + 1 - e.age),
                  waited |-> limit + 1 - e.age, steps |-> steps]
       ELSE LET o1 == [o EXCEPT !.ring[o.hand].refCount = 0,
                                !.hand = RingNext(o, o.hand)]
            IN IF o1.hand = r THEN [c |-> o1, waited |-> 0, steps |-> steps + 1]
               ELSE WS_scan(o1, r, steps + 1)

\* evict: ret is <<the time the scan waited, its steps>>.
WS_evict(o) ==
    LET s == WS_scan(o, o.hand, 0)
    IN Res(Ring_dropAtHand(s.c), <<s.waited, s.steps>>, <<>>)

WS_Add(o, key, val) ==
    IF key \in DOMAIN o.items
    THEN Res([o EXCEPT !.ring[o.items[key]].refCount = 1,
                       !.ring[o.items[key]].Val = val], Nil, <<>>)
    ELSE LET e == WS_evict(o)
             o1 == e.c
         IN Res([o1 EXCEPT !.ring[o1.hand] = WSEntry(key, val, 1, 0),
                           !.items = MapSet(o1.items, key, o1.hand),
                           !.hand = RingNext(o1, o1.hand)], Nil, e.cb)

WS_Get(o, key) ==
    IF key \in DOMAIN o.items
    THEN Res([o EXCEPT !.ring[o.items[key]].age = 0],
             <<o.ring[o.items[key]].Val, TRUE>>, <<>>)
    ELSE Res(o, <<Nil, FALSE>>, <<>>)

\* ======================================================= the state machine
\* The record of a call.
Call(op, args, pre, r) ==
    [op |-> op, args |-> args, pre |-> pre, ret |-> r.ret, cb |-> r.cb, panic |-> FALSE]

\* The state after a constructor call with these arguments.
Built(op, args, r) ==
    [op |-> IF r.err THEN "NewFailed" ELSE op, args |-> args, pre |-> NoCache,
     ret |-> r.err, cb |-> <<>>, panic |-> FALSE]

\* The record once the caller has taken the result.
Idle == [op |-> "idle", args |-> <<>>, pre |-> NoCache, ret |-> Nil, cb |-> <<>>,
         panic |-> FALSE]

\* A call is made on a cache that was built, by a caller that is not inside
\* another call, and not after a panic.
Ready == last.op = "idle"

\* The cache is of engine k and its caller is ready to call.
Calling(k) == kind = k /\ Ready

\* The caller takes the result of the call, or the cache from its
\* constructor.  There is no return from a panic or a failed construction.
Return ==
    /\ last.op \notin {"idle", "NewFailed"}
    /\ ~last.panic
    /\ last' = Idle
    /\ UNCHANGED <<kind, c, hist>>

\* ---- the history variable
\* k becomes the most recently touched key.
HTouch(h, k) == Append(SelectSeq(h, LAMBDA x : x # k), k)

\* k is recorded once, at its first insertion.
HInsert(h, k) == IF k \in SeqToSet(h) THEN h ELSE Append(h, k)

\* Only the keys that are still in the cache are kept.
HLive(h, items) == SelectSeq(h, LAMBDA x : x \in items)

\* The history after the batch keys[i..] was added one by one by AddMany.
RECURSIVE HAddMany(_, _, _, _, _)
HAddMany(o, h, keys, values, i) ==
    IF i > Len(keys) THEN h
    ELSE LET o1 == LRU_Add(o, keys[i], values[i]).c
         IN HAddMany(o1, HLive(HTouch(h, keys[i]), o1.items), keys, values, i + 1)

\* For LRU-K the history is a function: for every key, the number of
\* touches (Add, or Get hit) since the key last became resident, 0 for a
\* key that is not resident; it stops counting one past the threshold k.
KLive(o) == o.recent.items \cup o.frequent.items

KHist(h, pre, post, key, touched) ==
    [x \in Keys |->
        IF x \notin KLive(post) THEN 0
        ELSE IF x = key /\ touched
        THEN IF x \notin KLive(pre) THEN 1
             ELSE IF h[x] + 1 > pre.k + 1 THEN pre.k + 1 ELSE h[x] + 1
        ELSE h[x]]

\* ---- LRU
InitLRU ==
    \E size \in Sizes, onEvict \in BOOLEAN :
        LET r == NewLRU(size, onEvict)
        IN /\ kind = "lru"
           /\ c = r.c
           /\ last = Built("NewLRU", [size |-> size], r)
           /\ hist = <<>>

LRUAdd ==
    /\ Calling("lru")
    /\ \E key \in Keys, value \in Values :
           LET r == LRU_Add(c, key, value)
           IN /\ c' = r.c
              /\ last' = Call("Add", [key |-> key, value |-> value], c, r)
              /\ hist' = HLive(HTouch(hist, key), r.c.items)
              /\ UNCHANGED kind

LRUAddMany ==
    /\ Calling("lru")
    /\ \E keys \in SeqsUpTo(Keys, MaxBatch), values \in SeqsUpTo(Values, MaxBatch) :
           LET r == LRU_AddMany(c, keys, values)
           IN /\ c' = r.c
              /\ last' = Call("AddMany", [keys |-> keys, values |-> values], c, r)
              /\ hist' = IF Len(keys) = Len(values)
                         THEN HAddMany(c, hist, keys, values, 1) ELSE hist
              /\ UNCHANGED kind

LRUGet ==
    /\ Calling("lru")
    /\ \E key \in Keys :
           LET r == LRU_Get(c, key)
           IN /\ c' = r.c
              /\ last' = Call("Get", [key |-> key], c, r)
              /\ hist' = IF r.ret[2] THEN HTouch(hist, key) ELSE hist
              /\ UNCHANGED kind

LRUContains ==
    /\ Calling("lru")
    /\ \E key \in Keys :
           LET r == LRU_Contains(c, key)
           IN /\ c' = r.c
              /\ last' = Call("Contains", [key |-> key], c, r)
              /\ UNCHANGED <<kind, hist>>

LRUPeek ==
    /\ Calling("lru")
    /\ \E key \in Keys :
           LET r == LRU_Peek(c, key)
           IN /\ c' = r.c
              /\ last' = Call("Peek", [key |-> key], c, r)
              /\ UNCHANGED <<kind, hist>>

LRURemove ==
    /\ Calling("lru")
    /\ \E key \in Keys :
           LET r == LRU_Remove(c, key)
           IN /\ c' = r.c
              /\ last' = Call("Remove", [key |-> key], c, r)
              /\ hist' = HLive(hist, r.c.items)
              /\ UNCHANGED kind

LRURemoveMany ==
    /\ Calling("lru")
    /\ \E keys \in SeqsUpTo(Keys, MaxBatch) :
           LET r == LRU_RemoveMany(c, keys)
           IN /\ c' = r.c
              /\ last' = Call("RemoveMany", [keys |-> keys], c, r)
              /\ hist' = HLive(hist, r.c.items)
              /\ UNCHANGED kind

LRURemoveOldest ==
    /\ Calling("lru")
    /\ LET r == LRU_RemoveOldest(c)
       IN /\ c' = r.c
          /\ last' = Call("RemoveOldest", <<>>, c, r)
          /\ hist' = HLive(hist, r.c.items)
          /\ UNCHANGED kind

LRUGetOldest ==
    /\ Calling("lru")
    /\ LET r == LRU_GetOldest(c)
       IN /\ c' = r.c
          /\ last' = Call("GetOldest", <<>>, c, r)
          /\ UNCHANGED <<kind, hist>>

LRUResize ==
    /\ Calling("lru")
    /\ \E size \in Sizes :
           LET r == LRU_Resize(c, size)
           IN /\ c' = r.c
              /\ last' = Call("Resize", [size |-> size], c, r)
              /\ hist' = HLive(hist, r.c.items)
              /\ UNCHANGED kind

LRUPurge ==
    /\ Calling("lru")
    /\ LET r == LRU_Purge(c)
       IN /\ c' = r.c
          /\ last' = Call("Purge", <<>>, c, r)
          /\ hist' = <<>>
          /\ UNCHANGED kind

NextLRU ==
    \/ LRUAdd
    \/ LRUAddMany
    \/ LRUGet
    \/ LRUContains
    \/ LRUPeek
    \/ LRURemove
    \/ LRURemoveMany
    \/ LRURemoveOldest
    \/ LRUGetOldest
    \/ LRUResize
    \/ LRUPurge

SpecLRU == InitLRU /\ [][NextLRU \/ Return]_vars

\* ---- FIFO
InitFIFO ==
    \E size \in Sizes, onEvict \in BOOLEAN :
        LET r == NewFIFO(size, onEvict)
        IN /\ kind = "fifo"
           /\ c = r.c
           /\ last = Built("NewFIFO", [size |-> size], r)
           /\ hist = <<>>

FIFOAdd ==
    /\ Calling("fifo")
    /\ \E key \in Keys, value \in Values :
           LET r == FIFO_Add(c, key, value)
           IN /\ c' = r.c
              /\ last' = Call("Add", [key |-> key, value |-> value], c, r)
              /\ hist' = HLive(HInsert(hist, key), r.c.items)
              /\ UNCHANGED kind

FIFOGet ==
    /\ Calling("fifo")
    /\ \E key \in Keys :
           LET r == FIFO_Get(c, key)
           IN /\ c' = r.c
              /\ last' = Call("Get", [key |-> key], c, r)
              /\ UNCHANGED <<kind, hist>>

FIFOContains ==
    /\ Calling("fifo")
    /\ \E key \in Keys :
           LET r == FIFO_Contains(c, key)
           IN /\ c' = r.c
              /\ last' = Call("Contains", [key |-> key], c, r)
              /\ UNCHANGED <<kind, hist>>

FIFORemove ==
    /\ Calling("fifo")
    /\ \E key \in Keys :
           LET r == FIFO_Remove(c, key)
           IN /\ c' = r.c
              /\ last' = Call("Remove", [key |-> key], c, r)
              /\ hist' = HLive(hist, r.c.items)
              /\ UNCHANGED kind

FIFOResize ==
    /\ Calling("fifo")
    /\ \E size \in Sizes :
           LET r == FIFO_Resize(c, size)
           IN /\ c' = r.c
              /\ last' = Call("Resize", [size |-> size], c, r)
              /\ hist' = HLive(hist, r.c.items)
              /\ UNCHANGED kind

NextFIFO ==
    \/ FIFOAdd
    \/ FIFOGet
    \/ FIFOContains
    \/ FIFORemove
    \/ FIFOResize

SpecFIFO == InitFIFO /\ [][NextFIFO \/ Return]_vars

\* ---- LFU
InitLFU ==
    \E size \in Sizes, onEvict \in BOOLEAN :
        LET r == NewLFU(size, onEvict)
        IN /\ kind = "lfu"
           /\ c = r.c
           /\ last = Built("NewLFU", [size |-> size], r)
           /\ hist = <<>>

\* The reference count of key is below the cap, or key is absent.
LFUCountBelowCap(key) ==
    key \in c.items => c.evictList[PQ_At(c.evictList, key)].referenceCount < MaxRef

LFUAdd ==
    /\ Calling("lfu")
    /\ \E key \in Keys, value \in Values :
           LET r == LFU_Add(c, key, value)
           IN /\ LFUCountBelowCap(key)
              /\ c' = r.c
              /\ last' = Call("Add", [key |-> key, value |-> value], c, r)
              /\ UNCHANGED <<kind, hist>>

LFUGet ==
    /\ Calling("lfu")
    /\ \E key \in Keys :
           LET r == LFU_Get(c, key)
           IN /\ LFUCountBelowCap(key)
              /\ c' = r.c
              /\ last' = Call("Get", [key |-> key], c, r)
              /\ UNCHANGED <<kind, hist>>

LFUContains ==
    /\ Calling("lfu")
    /\ \E key \in Keys :
           LET r == LFU_Contains(c, key)
           IN /\ c' = r.c
              /\ last' = Call("Contains", [key |-> key], c, r)
              /\ UNCHANGED <<kind, hist>>

LFURemove ==
    /\ Calling("lfu")
    /\ \E key \in Keys :
           LET r == LFU_Remove(c, key)
           IN /\ c' = r.c
              /\ last' = Call("Remove", [key |-> key], c, r)
              /\ UNCHANGED <<kind, hist>>

NextLFU ==
    \/ LFUAdd
    \/ LFUGet
    \/ LFUContains
    \/ LFURemove

SpecLFU == InitLFU /\ [][NextLFU \/ Return]_vars

\* LFU with heaps of up to MaxHeap entries.
InitLFUHeap ==
    \E size \in 1..MaxHeap, onEvict \in BOOLEAN :
        LET r == NewLFU(size, onEvict)
        IN /\ kind = "lfu"
           /\ c = r.c
           /\ last = Built("NewLFU", [size |-> size], r)
           /\ hist = <<>>

SpecLFUHeap == InitLFUHeap /\ [][NextLFU \/ Return]_vars

\* ---- 2Q
Init2Q ==
    \E size \in Sizes, recentRatio \in RatioArgs, ghostRatio \in RatioArgs :
        LET r == New2QParams(size, recentRatio, ghostRatio)
        IN /\ kind = "2q"
           /\ c = r.c
           /\ last = Built("New2QParams",
                           [size |-> size, recentRatio |-> recentRatio,
                            ghostRatio |-> ghostRatio], r)
           /\ hist = <<>>

TQAdd ==
    /\ Calling("2q")
    /\ \E key \in Keys, value \in Values :
           LET r == TQ_Add(c, key, value)
           IN /\ c' = r.c
              /\ last' = Call("Add", [key |-> key, value |-> value], c, r)
              /\ UNCHANGED <<kind, hist>>

TQGet ==
    /\ Calling("2q")
    /\ \E key \in Keys :
           LET r == TQ_Get(c, key)
           IN /\ c' = r.c
              /\ last' = Call("Get", [key |-> key], c, r)
              /\ UNCHANGED <<kind, hist>>

TQPeek ==
    /\ Calling("2q")
    /\ \E key \in Keys :
           LET r == TQ_Peek(c, key)
           IN /\ c' = r.c
              /\ last' = Call("Peek", [key |-> key], c, r)
              /\ UNCHANGED <<kind, hist>>

TQContains ==
    /\ Calling("2q")
    /\ \E key \in Keys :
           LET r == TQ_Contains(c, key)
           IN /\ c' = r.c
              /\ last' = Call("Contains", [key |-> key], c, r)
              /\ UNCHANGED <<kind, hist>>

TQRemove ==
    /\ Calling("2q")
    /\ \E key \in Keys :
           LET r == TQ_Remove(c, key)
           IN /\ c' = r.c
              /\ last' = Call("Remove", [key |-> key], c, r)
              /\ UNCHANGED <<kind, hist>>

TQResize ==
    /\ Calling("2q")
    /\ \E size \in Sizes :
           LET r == TQ_Resize(c, size)
           IN /\ c' = r.c
              /\ last' = Call("Resize", [size |-> size], c, r)
              /\ UNCHANGED <<kind, hist>>

TQPurge ==
    /\ Calling("2q")
    /\ LET r == TQ_Purge(c)
       IN /\ c' = r.c
          /\ last' = Call("Purge", <<>>, c, r)
          /\ UNCHANGED <<kind, hist>>

Next2Q ==
    \/ TQAdd
    \/ TQGet
    \/ TQPeek
    \/ TQContains
    \/ TQRemove
    \/ TQResize
    \/ TQPurge

Spec2Q == Init2Q /\ [][Next2Q \/ Return]_vars

\* ---- LRU-K
InitLRUK ==
    \E size \in Sizes, recentRatio \in RatioArgs, k \in 0..MaxK :
        LET r == NewLruKParams(size, recentRatio, k)
        IN /\ kind = "lruk"
           /\ c = r.c
           /\ last = Built("NewLruKParams",
                           [size |-> size, recentRatio |-> recentRatio, k |-> k], r)
           /\ hist = [x \in Keys |-> 0]

LRUKAdd ==
    /\ Calling("lruk")
    /\ \E key \in Keys, value \in Values :
           LET r == LRUK_Add(c, key, value)
           IN /\ c' = r.c
              /\ last' = Call("Add", [key |-> key, value |-> value], c, r)
              /\ hist' = KHist(hist, c, r.c, key, TRUE)
              /\ UNCHANGED kind

LRUKGet ==
    /\ Calling("lruk")
    /\ \E key \in Keys :
           LET r == LRUK_Get(c, key)
           IN /\ c' = r.c
              /\ last' = Call("Get", [key |-> key], c, r)
              /\ hist' = KHist(hist, c, r.c, key, r.ret[2])
              /\ UNCHANGED kind

LRUKPeek ==
    /\ Calling("lruk")
    /\ \E key \in Keys :
           LET r == LRUK_Peek(c, key)
           IN /\ c' = r.c
              /\ last' = Call("Peek", [key |-> key], c, r)
              /\ UNCHANGED <<kind, hist>>

LRUKContains ==
    /\ Calling("lruk")
    /\ \E key \in Keys :
           LET r == LRUK_Contains(c, key)
           IN /\ c' = r.c
              /\ last' = Call("Contains", [key |-> key], c, r)
              /\ UNCHANGED <<kind, hist>>

LRUKRemove ==
    /\ Calling("lruk")
    /\ \E key \in Keys :
           LET r == LRUK_Remove(c, key)
           IN /\ c' = r.c
              /\ last' = Call("Remove", [key |-> key], c, r)
              /\ hist' = KHist(hist, c, r.c, key, FALSE)
              /\ UNCHANGED kind

LRUKResize ==
    /\ Calling("lruk")
    /\ \E size \in Sizes :
           LET r == LRUK_Resize(c, size)
           IN /\ c' = r.c
              /\ last' = Call("Resize", [size |-> size], c, r)
              /\ hist' = KHist(hist, c, r.c, 1, FALSE)
              /\ UNCHANGED kind

LRUKPurge ==
    /\ Calling("lruk")
    /\ LET r == LRUK_Purge(c)
       IN /\ c' = r.c
          /\ last' = Call("Purge", <<>>, c, r)
          /\ hist' = KHist(hist, c, r.c, 1, FALSE)
          /\ UNCHANGED kind

NextLRUK ==
    \/ LRUKAdd
    \/ LRUKGet
    \/ LRUKPeek
    \/ LRUKContains
    \/ LRUKRemove
    \/ LRUKResize
    \/ LRUKPurge

SpecLRUK == InitLRUK /\ [][NextLRUK \/ Return]_vars

\* ---- the clock family
\* A Delete that panicked leaves the process dead.
CallDelete(key, pre, r) ==
    [Call("Delete", [key |-> key], pre, r) EXCEPT !.panic = (r.ret = "panic")]

InitClock ==
    \E size \in Sizes, onEvict \in BOOLEAN :
        LET r == NewClock(size, onEvict)
        IN /\ kind = "clock"
           /\ c = r.c
           /\ last = Built("NewClock", [size |-> size], r)
           /\ hist = <<>>

ClockAdd ==
    /\ Calling("clock")
    /\ \E key \in Keys, value \in Values :
           LET r == Clock_Add(c, key, value)
           IN /\ key \in DOMAIN c.items => c.ring[c.items[key]].refCount < MaxRef
              /\ c' = r.c
              /\ last' = Call("Add", [key |-> key, value |-> value], c, r)
              /\ UNCHANGED <<kind, hist>>

ClockGet ==
    /\ Calling("clock")
    /\ \E key \in Keys :
           LET r == Clock_Get(c, key)
           IN /\ key \in DOMAIN c.items => c.ring[c.items[key]].refCount < MaxRef
              /\ c' = r.c
              /\ last' = Call("Get", [key |-> key], c, r)
              /\ UNCHANGED <<kind, hist>>

ClockDelete ==
    /\ Calling("clock")
    /\ \E key \in Keys :
           LET r == Ring_Delete(c, key)
           IN /\ c' = r.c
              /\ last' = CallDelete(key, c, r)
              /\ UNCHANGED <<kind, hist>>

NextClock ==
    \/ ClockAdd
    \/ ClockGet
    \/ ClockDelete

SpecClock == InitClock /\ [][NextClock \/ Return]_vars

InitCS ==
    \E size \in Sizes, onEvict \in BOOLEAN :
        LET r == NewClockSweep(size, onEvict)
        IN /\ kind = "clocksweep"
           /\ c = r.c
           /\ last = Built("NewClockSweep", [size |-> size], r)
           /\ hist = <<>>

CSAdd ==
    /\ Calling("clocksweep")
    /\ \E key \in Keys, value \in Values :
           LET r == CS_Add(c, key, value)
           IN /\ key \in DOMAIN c.items => c.ring[c.items[key]].useCount < MaxRef
              /\ c' = r.c
              /\ last' = Call("Add", [key |-> key, value |-> value], c, r)
              /\ UNCHANGED <<kind, hist>>

CSGet ==
    /\ Calling("clocksweep")
    /\ \E key \in Keys :
           LET r == CS_Get(c, key)
           IN /\ key \in DOMAIN c.items => c.ring[c.items[key]].useCount < MaxRef
              /\ c' = r.c
              /\ last' = Call("Get", [key |-> key], c, r)
              /\ UNCHANGED <<kind, hist>>

CSDelete ==
    /\ Calling("clocksweep")
    /\ \E key \in Keys :
           LET r == Ring_Delete(c, key)
           IN /\ c' = r.c
              /\ last' = CallDelete(key, c, r)
              /\ UNCHANGED <<kind, hist>>

NextCS ==
    \/ CSAdd
    \/ CSGet
    \/ CSDelete

SpecCS == InitCS /\ [][NextCS \/ Return]_vars

InitWS ==
    \E size \in Sizes, onEvict \in BOOLEAN :
        LET r == NewWSClock(size, onEvict)
        IN /\ kind = "wsclock"
           /\ c = r.c
           /\ last = Built("NewWSClock", [size |-> size], r)
           /\ hist = <<>>

WSAdd ==
    /\ Calling("wsclock")
    /\ \E key \in Keys, value \in Values :
           LET r == WS_Add(c, key, value)
           IN /\ c' = r.c
              /\ last' = Call("Add", [key |-> key, value |-> value], c, r)
              /\ UNCHANGED <<kind, hist>>

WSGet ==
    /\ Calling("wsclock")
    /\ \E key \in Keys :
           LET r == WS_Get(c, key)
           IN /\ c' = r.c
              /\ last' = Call("Get", [key |-> key], c, r)
              /\ UNCHANGED <<kind, hist>>

WSDelete ==
    /\ Calling("wsclock")
    /\ \E key \in Keys :
           LET r == Ring_Delete(c, key)
           IN /\ c' = r.c
              /\ last' = CallDelete(key, c, r)
              /\ UNCHANGED <<kind, hist>>

\* One unit of time passes between two calls.
Tick ==
    /\ Calling("wsclock")
    /\ c' = WS_elapse(c, 1)
    /\ c' # c
    /\ UNCHANGED <<kind, last, hist>>

NextWS ==
    \/ WSAdd
    \/ WSGet
    \/ WSDelete
    \/ Tick

SpecWS == InitWS /\ [][NextWS \/ Return]_vars

\* WSClock with rings of up to MaxRing slots.
InitWSRing ==
    \E size \in 1..MaxRing, onEvict \in BOOLEAN :
        LET r == NewWSClock(size, onEvict)
        IN /\ kind = "wsclock"
           /\ c = r.c
           /\ last = Built("NewWSClock", [size |-> size], r)
           /\ hist = <<>>

SpecWSRing == InitWSRing /\ [][NextWS \/ Return]_vars

\* ---- 2Q and LRU-K called by several threads
\* Every public method of TwoQueueCache and LRUK starts with c.lock.Lock()
\* or c.lock.RLock() and defers the matching unlock.  A thread is idle or
\* holds the lock inside the method it called; hist is the record
\* [writer, readers, pc] of the sync.RWMutex and of the threads' positions.
Threads == 1..NumThreads

MTIdle == [op |-> "idle", key |-> 0, value |-> Nil, size |-> 0, reverse |-> FALSE]

MTCall(op, key, value, size, reverse) ==
    [op |-> op, key |-> key, value |-> value, size |-> size, reverse |-> reverse]

\* The calls a thread can make.
MTCalls ==
    {MTCall("Add", key, value, 0, FALSE) : key \in Keys, value \in Values}
    \cup {MTCall(op, key, Nil, 0, FALSE) :
              op \in {"Get", "Peek", "Contains", "Remove"}, key \in Keys}
    \cup {MTCall(op, 0, Nil, 0, reverse) : op \in {"Keys", "Values"}, reverse \in BOOLEAN}
    \cup {MTCall(op, 0, Nil, 0, FALSE) : op \in {"Len", "Purge"}}
    \cup {MTCall("Resize", 0, Nil, size, FALSE) : size \in Sizes}

\* The lock each method of TwoQueueCache takes: "w" for Lock, "r" for RLock.
TQ_lock(op) ==
    IF op \in {"Get", "Add", "Resize", "Remove", "Purge"} THEN "w" ELSE "r"

\* The lock each method of LRUK takes.
LRUK_lock(op) ==
    IF op \in {"Add", "Resize", "Remove", "Purge"} THEN "w" ELSE "r"

MTLockOf(op) == IF kind = "2q" THEN TQ_lock(op) ELSE LRUK_lock(op)

\* The cache after the body of the method called.
TQ_body(o, call) ==
    IF call.op = "Add" THEN TQ_Add(o, call.key, call.value).c
    ELSE IF call.op = "Get" THEN TQ_Get(o, call.key).c
    ELSE IF call.op = "Peek" THEN TQ_Peek(o, call.key).c
    ELSE IF call.op = "Contains" THEN TQ_Contains(o, call.key).c
    ELSE IF call.op = "Remove" THEN TQ_Remove(o, call.key).c
    ELSE IF call.op = "Resize" THEN TQ_Resize(o, call.size).c
    ELSE IF call.op = "Purge" THEN TQ_Purge(o).c
    ELSE o

LRUK_body(o, call) ==
    IF call.op = "Add" THEN LRUK_Add(o, call.key, call.value).c
    ELSE IF call.op = "Get" THEN LRUK_Get(o, call.key).c
    ELSE IF call.op = "Peek" THEN LRUK_Peek(o, call.key).c
    ELSE IF call.op = "Contains" THEN LRUK_Contains(o, call.key).c
    ELSE IF call.op = "Remove" THEN LRUK_Remove(o, call.key).c
    ELSE IF call.op = "Resize" THEN LRUK_Resize(o, call.size).c
    ELSE IF call.op = "Purge" THEN LRUK_Purge(o).c
    ELSE o

MTBody(o, call) == IF kind = "2q" THEN TQ_body(o, call) ELSE LRUK_body(o, call)

MTUnlocked == [writer |-> 0, readers |-> {}, pc |-> [t \in Threads |-> MTIdle]]

InitMT2Q ==
    \E size \in Sizes :
        LET r == New2Q(size)
        IN /\ kind = "2q"
           /\ c = r.c
           /\ last = Built("New2Q", [size |-> size], r)
           /\ hist = MTUnlocked

InitMTLRUK ==
    \E size \in Sizes, k \in 1..MaxK :
        LET r == NewLruK(size, k)
        IN /\ kind = "lruk"
           /\ c = r.c
           /\ last = Built("NewLruK", [size |-> size, k |-> k], r)
           /\ hist = MTUnlocked

\* A thread enters a method: Lock waits for the lock to be free, RLock for
\* no writer to hold it.
MTLock ==
    /\ c # NoCache
    /\ \E t \in Threads, call \in MTCalls :
           /\ hist.pc[t] = MTIdle
           /\ hist.writer = 0
           /\ MTLockOf(call.op) = "w" => hist.readers = {}
           /\ hist' = [hist EXCEPT
                  !.writer = IF MTLockOf(call.op) = "w" THEN t ELSE 0,
                  !.readers = IF MTLockOf(call.op) = "r" THEN @ \cup {t} ELSE @,
                  !.pc[t] = call]
           /\ UNCHANGED <<kind, c, last>>

\* A thread runs the body of its method and the deferred unlock.
MTRun ==
    /\ c # NoCache
    /\ \E t \in Threads :
           /\ hist.pc[t] # MTIdle
           /\ c' = MTBody(c, hist.pc[t])
           /\ hist' = [hist EXCEPT
                  !.writer = IF @ = t THEN 0 ELSE @,
                  !.readers = @ \ {t},
                  !.pc[t] = MTIdle]
           /\ UNCHANGED <<kind, last>>

NextMT ==
    \/ MTLock
    \/ MTRun

SpecMT == (InitMT2Q \/ InitMTLRUK) /\ [][NextMT]_vars

\* ---- several engines under one specification
\* LRU and FIFO.
SpecOrdered == (InitLRU \/ InitFIFO) /\ [][NextLRU \/ NextFIFO \/ Return]_vars

\* LRU, FIFO and 2Q.
SpecOverwrite ==
    (InitLRU \/ InitFIFO \/ Init2Q) /\ [][NextLRU \/ NextFIFO \/ Next2Q \/ Return]_vars

\* LRU and 2Q.
SpecPeek == (InitLRU \/ Init2Q) /\ [][NextLRU \/ Next2Q \/ Return]_vars

\* 2Q and LRU-K.
SpecTiered == (Init2Q \/ InitLRUK) /\ [][Next2Q \/ NextLRUK \/ Return]_vars

\* Clock, Clock-Sweep and WSClock.
SpecRing ==
    (InitClock \/ InitCS \/ InitWS) /\ [][NextClock \/ NextCS \/ NextWS \/ Return]_vars

\* Every constructor, followed by the Adds of the engines that are one
\* structure (the Adds of 2Q and LRU-K run under Spec2Q and SpecLRUK).
NextNew ==
    \/ LRUAdd
    \/ FIFOAdd
    \/ LFUAdd
    \/ ClockAdd
    \/ CSAdd
    \/ WSAdd

SpecNew ==
    /\ \/ InitLRU
       \/ InitFIFO
       \/ InitLFU
       \/ Init2Q
       \/ InitLRUK
       \/ InitClock
       \/ InitCS
       \/ InitWS
    /\ [][NextNew \/ Return]_vars

\* 2Q under Add, Get and Remove only.
Next2QCore ==
    \/ TQAdd
    \/ TQGet
    \/ TQRemove

Spec2QCore == Init2Q /\ [][Next2QCore \/ Return]_vars

\* LRU-K under Add, Get and Remove only.
NextLRUKCore ==
    \/ LRUKAdd
    \/ LRUKGet
    \/ LRUKRemove

SpecLRUKCore == InitLRUK /\ [][NextLRUKCore \/ Return]_vars

\* ============================================================ statements
\* The cache was built (its constructor did not fail).
Alive == c # NoCache

\* ---------------------------------------------------------------------
\* C1. LRU and FIFO capacity: after every call on a cache built with
\* size > 0 (Add, AddMany, Get, Peek, Remove, RemoveMany, RemoveOldest,
\* Resize, and the others), Len() is at most the current size.
C1_OrderedCapacity ==
    (kind \in {"lru", "fifo"} /\ Alive) =>
        /\ c.size > 0
        /\ (IF kind = "lru" THEN LRU_Len(c) ELSE FIFO_Len(c)) <= c.size

\* An Add of a new key to a full cache of two entries has evicted one.
C1_Witness ==
    /\ kind \in {"lru", "fifo"}
    /\ last.op = "Add"
    /\ last.ret
    /\ Len(last.pre.evictList) = 2
    /\ Len(c.evictList) = c.size

\* ---------------------------------------------------------------------
\* C2. 2Q capacity: for a cache built by New2QParams with size > 0 and
\* ratios in [0, 1], after every Add, Get and Remove,
\* Len() = len(recent) + len(frequent) is at most size.
C2_TwoQueueCapacity ==
    (kind = "2q" /\ Alive) => TQ_Len(c) <= c.size

\* ---------------------------------------------------------------------
\* C3. LRU-K capacity: for a cache built with size > 0 and k >= 1, after
\* every Add, Get and Remove, Len() = len(recent) + len(frequent) is at
\* most size.
C3_LruKCapacity ==
    (kind = "lruk" /\ Alive) => LRUK_Len(c) <= c.size

\* ---------------------------------------------------------------------
\* C4. Clock family, no callback registered: after every Add, Get and
\* Delete every indexed key maps to a ring slot of its own that holds an
\* entry with that key, every occupied slot is indexed, so Len() <= size;
\* and after Add of a new key to a full cache Len() = size and the new key
\* is retrievable.
RingKinds == {"clock", "clocksweep", "wsclock"}

RingGet(o, key) ==
    IF kind = "clock" THEN Clock_Get(o, key)
    ELSE IF kind = "clocksweep" THEN CS_Get(o, key)
    ELSE WS_Get(o, key)

C4_RingConsistent ==
    (kind \in RingKinds /\ Alive /\ ~c.onEvict) =>
        /\ \A k \in DOMAIN c.items :
              /\ c.items[k] \in 1..c.size
              /\ c.ring[c.items[k]] # NoEntry
              /\ c.ring[c.items[k]].Key = k
        /\ \A k1, k2 \in DOMAIN c.items : c.items[k1] = c.items[k2] => k1 = k2
        /\ \A i \in 1..c.size :
              c.ring[i] # NoEntry =>
                  /\ c.ring[i].Key \in DOMAIN c.items
                  /\ c.items[c.ring[i].Key] = i
        /\ Ring_Len(c) <= c.size
        /\ (/\ last.op = "Add"
            /\ last.args.key \notin DOMAIN last.pre.items
            /\ Ring_Len(last.pre) = last.pre.size)
           => /\ Ring_Len(c) = c.size
              /\ RingGet(c, last.args.key).ret = <<last.args.value, TRUE>>

\* A new key was added to a full ring of two slots.
C4_Witness ==
    /\ kind \in RingKinds
    /\ Alive
    /\ ~c.onEvict
    /\ last.op = "Add"
    /\ last.args.key \notin DOMAIN last.pre.items
    /\ Ring_Len(last.pre) = 2
    /\ last.pre.size = 2

\* ---------------------------------------------------------------------
\* The recency order an LRU cache must keep, told without the code's list:
\* h holds the live keys, least recently touched first.  Adding key touches
\* it, and when more than size keys are then live the least recently
\* touched one is the victim.
RefAdd(h, size, key) ==
    LET h1 == HTouch(h, key)
    IN IF Len(h1) > size
       THEN [h |-> Tail(h1), victims |-> <<h1[1]>>]
       ELSE [h |-> h1, victims |-> <<>>]

RECURSIVE RefAddMany(_, _, _, _)
RefAddMany(h, size, keys, i) ==
    IF i > Len(keys) THEN [h |-> h, victims |-> <<>>]
    ELSE LET one == RefAdd(h, size, keys[i])
             rest == RefAddMany(one.h, size, keys, i + 1)
         IN [h |-> rest.h, victims |-> one.victims \o rest.victims]

\* C5. LRU eviction victim: an Add (or each Add of an AddMany) of a new key
\* that makes the cache exceed its size evicts exactly one entry, the live
\* key whose last touch by Add or Get is the oldest (Peek and Contains do
\* not touch); Add returns true exactly then, AddMany returns the number of
\* such evictions.
C5_LruVictim ==
    [][(kind = "lru" /\ Ready /\ last'.op \in {"Add", "AddMany"}) =>
          IF last'.op = "Add"
          THEN LET ref == RefAdd(hist, c.size, last'.args.key)
               IN /\ last'.ret = (ref.victims # <<>>)
                  /\ last'.ret = (last'.args.key \notin c.items /\ LRU_Len(c) = c.size)
                  /\ c'.items = SeqToSet(ref.h)
                  /\ (c.items \cup {last'.args.key}) \ c'.items = SeqToSet(ref.victims)
                  /\ LRU_Len(c') = Len(ref.h)
          ELSE Len(last'.args.keys) = Len(last'.args.values) =>
               LET ref == RefAddMany(hist, c.size, last'.args.keys, 1)
               IN /\ last'.ret = Len(ref.victims)
                  /\ c'.items = SeqToSet(ref.h)
                  /\ LRU_Len(c') = Len(ref.h)]_vars

\* An Add of a new key into a full cache of two entries evicted one and kept
\* the entry at the front of the list.
C5_Witness ==
    /\ kind = "lru"
    /\ last.op = "Add"
    /\ last.ret
    /\ Len(last.pre.evictList) = 2
    /\ last.pre.evictList[1].Key \in c.items
    /\ last.pre.evictList[2].Key \notin c.items

\* ---------------------------------------------------------------------
\* The methods of the engine named by `kind`, for the statements that
\* speak of several engines.
LiveKeys(o) ==
    IF kind \in {"lru", "fifo"} THEN o.items
    ELSE o.frequent.items \cup o.recent.items

KeysOf(o, reverse) ==
    IF kind = "lru" THEN LRU_Keys(o, reverse)
    ELSE IF kind = "fifo" THEN FIFO_Keys(o, reverse)
    ELSE IF kind = "2q" THEN TQ_Keys(o, reverse)
    ELSE LRUK_Keys(o, reverse)

LenOf(o) == Len(KeysOf(o, TRUE))

GetOf(o, key) ==
    IF kind = "lru" THEN LRU_Get(o, key)
    ELSE IF kind = "fifo" THEN FIFO_Get(o, key)
    ELSE IF kind = "2q" THEN TQ_Get(o, key)
    ELSE LRUK_Get(o, key)

\* FIFO has no Peek: its Get does not reorder and stands for it.
PeekOf(o, key) ==
    IF kind = "lru" THEN LRU_Peek(o, key)
    ELSE IF kind = "fifo" THEN FIFO_Get(o, key)
    ELSE IF kind = "2q" THEN TQ_Peek(o, key)
    ELSE LRUK_Peek(o, key)

AddOf(o, key, value) ==
    IF kind = "lru" THEN LRU_Add(o, key, value)
    ELSE IF kind = "fifo" THEN FIFO_Add(o, key, value)
    ELSE IF kind = "2q" THEN TQ_Add(o, key, value)
    ELSE LRUK_Add(o, key, value)

\* C6. Overwrite in LRU, FIFO and 2Q: Add(key, v2) of a live key creates no
\* second entry, evicts nothing, leaves Len() unchanged, and a following
\* Get(key) or Peek(key) returns v2.
C6_Overwrite ==
    (/\ kind \in {"lru", "fifo", "2q"}
     /\ last.op = "Add"
     /\ last.args.key \in LiveKeys(last.pre))
    => /\ Cardinality({i \in 1..LenOf(c) : KeysOf(c, TRUE)[i] = last.args.key}) = 1
       /\ LiveKeys(c) = LiveKeys(last.pre)
       /\ LenOf(c) = LenOf(last.pre)
       /\ last.cb = <<>>
       /\ kind # "2q" => last.ret = FALSE
       /\ GetOf(c, last.args.key).ret = <<last.args.value, TRUE>>
       /\ PeekOf(c, last.args.key).ret = <<last.args.value, TRUE>>

\* ---------------------------------------------------------------------
\* C7. Overwrite in LRU-K, for every k >= 1: in the state an Add(key, v1)
\* has left, Add(key, v2) leaves Len() unchanged and a following Get(key)
\* or Peek(key) returns v2.
C7_LruKOverwrite ==
    (kind = "lruk" /\ last.op = "Add") =>
        \A v2 \in Values :
            LET second == LRUK_Add(c, last.args.key, v2).c
            IN /\ LRUK_Len(second) = LRUK_Len(c)
               /\ LRUK_Get(second, last.args.key).ret = <<v2, TRUE>>
               /\ LRUK_Peek(second, last.args.key).ret = <<v2, TRUE>>

\* ---------------------------------------------------------------------
\* The entries of the list before the call whose keys the call removed.
Dropped(pre, post) ==
    {pre.evictList[i] : i \in {j \in 1..Len(pre.evictList) :
                                  pre.evictList[j].Key \notin post.items}}

\* C8. Eviction callback in LRU and FIFO: Remove and RemoveMany never
\* invoke it, and every entry evicted for capacity (Add, AddMany) or by a
\* shrinking Resize invokes it exactly once with the entry's key and value.
C8_OrderedCallback ==
    (kind \in {"lru", "fifo"} /\ Alive /\ c.onEvict) =>
        /\ last.op \in {"Remove", "RemoveMany"} => last.cb = <<>>
        /\ last.op \in {"Add", "Resize"} =>
              /\ SeqToSet(last.cb) = Dropped(last.pre, c)
              /\ Len(last.cb) = Cardinality(Dropped(last.pre, c))
        /\ last.op = "AddMany" => Len(last.cb) = last.ret

\* ---------------------------------------------------------------------
\* C9. Eviction callback in the clock family: with a callback registered,
\* every entry the eviction scan of an Add removes invokes the callback
\* exactly once with the evicted key and value.
C9_RingCallback ==
    (kind \in RingKinds /\ Alive /\ c.onEvict /\ last.op = "Add") =>
        LET gone == DOMAIN last.pre.items \ DOMAIN c.items
        IN /\ Len(last.cb) = Cardinality(gone)
           /\ \A k \in gone :
                 \E i \in 1..Len(last.cb) :
                     /\ last.cb[i].Key = k
                     /\ last.cb[i].Value = last.pre.ring[last.pre.items[k]].Val

\* ---------------------------------------------------------------------
\* C10. Peek and Contains in LRU and 2Q leave the whole cache as it was:
\* Keys(true), Keys(false) and the outcome of the next Add (its victim
\* included) are those of the cache before the call.
C10_PeekPure ==
    (kind \in {"lru", "2q"} /\ last.op \in {"Peek", "Contains"}) =>
        /\ c = last.pre
        /\ KeysOf(c, TRUE) = KeysOf(last.pre, TRUE)
        /\ KeysOf(c, FALSE) = KeysOf(last.pre, FALSE)
        /\ \A key \in Keys, value \in Values :
              AddOf(c, key, value) = AddOf(last.pre, key, value)

\* Peek found the key at the eviction end of a full LRU list, where a
\* reordering would change the next victim.
C10_Witness ==
    /\ kind = "lru"
    /\ last.op = "Peek"
    /\ last.ret[2]
    /\ LRU_Len(c) = 2
    /\ c.size = 2
    /\ Back(c.evictList).Key = last.args.key

\* ---------------------------------------------------------------------
\* LRU, FIFO, 2Q and LRU-K.
SpecResize ==
    /\ InitLRU \/ InitFIFO \/ Init2Q \/ InitLRUK
    /\ [][NextLRU \/ NextFIFO \/ Next2Q \/ NextLRUK \/ Return]_vars

ResizeKinds == {"lru", "fifo", "2q", "lruk"}

\* C11. Resize to a non-positive size in LRU, FIFO, 2Q and LRU-K returns an
\* error and the count Len() minus the requested size, invokes no callback
\* and leaves the whole state (entries, order, size, recentSize, ghost set,
\* counters) as it was.
C11_ResizeRejected ==
    (kind \in ResizeKinds /\ last.op = "Resize" /\ last.args.size <= 0) =>
        /\ last.ret[2]
        /\ last.ret[1] = LenOf(last.pre) - last.args.size
        /\ last.cb = <<>>
        /\ c = last.pre

\* A Resize to a non-positive size was refused by a cache holding entries.
C11_Witness ==
    /\ kind \in ResizeKinds
    /\ last.op = "Resize"
    /\ last.args.size <= 0
    /\ LenOf(last.pre) = 2

\* ---------------------------------------------------------------------
\* C12. Resize(n) in LRU, FIFO, 2Q and LRU-K, from any reachable state:
\* with 0 < n < Len() it removes exactly Len() - n entries, returns that
\* number with no error and leaves Len() = n; with n >= Len() it removes
\* nothing and returns 0.
C12_ResizeShrinks ==
    (kind \in ResizeKinds /\ last.op = "Resize" /\ last.args.size > 0) =>
        /\ ~last.ret[2]
        /\ LiveKeys(c) \subseteq LiveKeys(last.pre)
        /\ IF last.args.size < LenOf(last.pre)
           THEN /\ last.ret[1] = LenOf(last.pre) - last.args.size
                /\ LenOf(c) = last.args.size
                /\ Cardinality(LiveKeys(last.pre) \ LiveKeys(c))
                       = LenOf(last.pre) - last.args.size
           ELSE /\ last.ret[1] = 0
                /\ KeysOf(c, TRUE) = KeysOf(last.pre, TRUE)

\* A Resize to a positive size below Len() has removed entries.
C12_Witness ==
    /\ kind \in ResizeKinds
    /\ last.op = "Resize"
    /\ last.args.size > 0
    /\ last.args.size < LenOf(last.pre)
    /\ last.ret[1] > 0

\* ---------------------------------------------------------------------
\* C13. LRU AddMany(keys, values) with len(keys) # len(values) changes
\* nothing in the cache and returns a signal the caller can tell apart from
\* a successful call with zero evictions (the empty batch is one).
C13_AddManyMismatch ==
    (/\ kind = "lru"
     /\ last.op = "AddMany"
     /\ Len(last.args.keys) # Len(last.args.values))
    => /\ c = last.pre
       /\ last.cb = <<>>
       /\ last.ret # LRU_AddMany(last.pre, <<>>, <<>>).ret

\* ---------------------------------------------------------------------
\* C14. 2Q promotion on second touch: Add(key, v) or Get(key) of a key that
\* is in recent leaves it in frequent and not in recent, with Len()
\* unchanged, and Get returns the stored value; a key that is in frequent
\* stays in frequent.
C14_TwoQueuePromotion ==
    (kind = "2q" /\ last.op \in {"Add", "Get"}) =>
        /\ last.args.key \in last.pre.recent.items =>
              /\ last.args.key \notin last.pre.frequent.items
              /\ last.args.key \in c.frequent.items
              /\ last.args.key \notin c.recent.items
              /\ TQ_Len(c) = TQ_Len(last.pre)
              /\ last.op = "Get" =>
                    last.ret = <<ListEntry(last.pre.recent.evictList, last.args.key).Value,
                                 TRUE>>
        /\ last.args.key \in last.pre.frequent.items =>
              /\ last.args.key \in c.frequent.items
              /\ last.args.key \notin c.recent.items

\* ---------------------------------------------------------------------
\* C15. 2Q ghost fast-track: Add(key, v) of a key that is in the ghost list
\* (recentEvict) leaves the key in frequent with value v, not in recent and
\* no longer in the ghost list; Add of a key that is in none of the three
\* lists leaves it in recent.
C15_GhostFastTrack ==
    (kind = "2q" /\ last.op = "Add") =>
        /\ last.args.key \in last.pre.recentEvict.items =>
              /\ last.args.key \in c.frequent.items
              /\ ListEntry(c.frequent.evictList, last.args.key).Value = last.args.value
              /\ last.args.key \notin c.recent.items
              /\ last.args.key \notin c.recentEvict.items
        /\ (last.args.key \notin last.pre.recentEvict.items
                \cup last.pre.recent.items \cup last.pre.frequent.items) =>
              /\ last.args.key \in c.recent.items
              /\ ListEntry(c.recent.evictList, last.args.key).Value = last.args.value
              /\ last.args.key \notin c.frequent.items

\* A key that sat in the ghost list was added while recent held entries.
C15_Witness ==
    /\ kind = "2q"
    /\ last.op = "Add"
    /\ last.args.key \in last.pre.recentEvict.items
    /\ LRU_Len(last.pre.recent) > 0
    /\ last.args.key \in c.frequent.items

\* ---------------------------------------------------------------------
\* C16. LRU-K gating with threshold k: a key is in frequent only if it was
\* touched (Add, or Get hit) at least k times since it last became
\* resident; a resident key with fewer touches is in recent; and the k-th
\* touch removes the key from recent, inserts it into frequent and drops
\* its counter entry.
C16_LruKGating ==
    (kind = "lruk" /\ Alive) =>
        /\ \A key \in c.frequent.items : hist[key] >= c.k
        /\ \A key \in KLive(c) : hist[key] < c.k => key \in c.recent.items
        /\ (/\ last.op \in {"Add", "Get"}
            /\ hist[last.args.key] = c.k
            /\ last.args.key \notin last.pre.frequent.items)
           => /\ last.args.key \in c.frequent.items
              /\ last.args.key \notin c.recent.items
              /\ last.args.key \notin DOMAIN c.cnt

\* The entries of an LFU cache, as a set.
LFU_Entries(o) == {o.evictList[i] : i \in 1..Len(o.evictList)}

\* The entry of an LFU cache stored under key.
LFU_EntryOf(o, key) == o.evictList[PQ_At(o.evictList, key)]

\* e is referenced less often than f, or as often and longer ago.
LFU_Before(e, f) ==
    \/ e.referenceCount < f.referenceCount
    \/ e.referenceCount = f.referenceCount /\ e.referencedAt < f.referencedAt

\* The entry of a non-empty LFU cache the policy names as the victim.
LFU_Victim(o) ==
    CHOOSE e \in LFU_Entries(o) : \A f \in LFU_Entries(o) \ {e} : LFU_Before(e, f)

\* ---------------------------------------------------------------------
\* C17. LFU eviction: Add of a new key to a full LFU cache evicts exactly
\* one entry, the one with the lowest reference count and, among equal
\* counts, the oldest last reference; the callback (if any) fires once,
\* with that entry; afterwards the new key is present with count 1 and
\* Len() equals size.  Add of a key already present evicts nothing.
C17_LfuEviction ==
    (kind = "lfu" /\ last.op = "Add") =>
        LET pre == last.pre
            key == last.args.key
        IN /\ {e.Key : e \in LFU_Entries(c)} = c.items
           /\ Cardinality(c.items) = LFU_Len(c)
           /\ IF key \in pre.items
              THEN /\ last.ret = FALSE
                   /\ last.cb = <<>>
                   /\ c.items = pre.items
              ELSE IF LFU_Len(pre) = pre.size
              THEN LET v == LFU_Victim(pre)
                   IN /\ last.ret = TRUE
                      /\ c.items = (pre.items \ {v.Key}) \cup {key}
                      /\ LFU_Len(c) = c.size
                      /\ LFU_EntryOf(c, key).referenceCount = 1
                      /\ LFU_EntryOf(c, key).Val = last.args.value
                      /\ last.cb = IF pre.onEvict THEN <<Entry(v.Key, v.Val)>> ELSE <<>>
                      /\ \A x \in pre.items \ {v.Key} :
                            /\ LFU_EntryOf(c, x).Val = LFU_EntryOf(pre, x).Val
                            /\ LFU_EntryOf(c, x).referenceCount =
                                   LFU_EntryOf(pre, x).referenceCount
              ELSE /\ last.ret = FALSE
                   /\ last.cb = <<>>
                   /\ c.items = pre.items \cup {key}

\* A full cache of two entries with equal counts met a new key: the tie
\* was broken by age and the callback was called.
C17_Witness ==
    /\ kind = "lfu"
    /\ last.op = "Add"
    /\ last.args.key \notin last.pre.items
    /\ last.pre.size = 2
    /\ LFU_Len(last.pre) = 2
    /\ last.pre.evictList[1].referenceCount = last.pre.evictList[2].referenceCount
    /\ last.pre.onEvict
    /\ Len(last.cb) = 1

\* ---------------------------------------------------------------------
\* C18. LFU Remove: of an absent key it returns false and changes
\* nothing; of a live key it returns true, Len() drops by one, a
\* following Get misses, the eviction callback is not called, and every
\* other entry keeps its value and its reference count.
C18_LfuRemove ==
    (kind = "lfu" /\ last.op = "Remove") =>
        LET pre == last.pre
            key == last.args.key
        IN /\ last.cb = <<>>
           /\ IF key \notin pre.items
              THEN /\ last.ret = FALSE
                   /\ c = pre
              ELSE /\ last.ret = TRUE
                   /\ LFU_Len(c) = LFU_Len(pre) - 1
                   /\ LFU_Get(c, key).ret = <<Nil, FALSE>>
                   /\ c.items = pre.items \ {key}
                   /\ {e.Key : e \in LFU_Entries(c)} = c.items
                   /\ \A x \in c.items :
                         /\ LFU_EntryOf(c, x).Val = LFU_EntryOf(pre, x).Val
                         /\ LFU_EntryOf(c, x).referenceCount =
                                LFU_EntryOf(pre, x).referenceCount

\* A live key was removed from a cache with a callback and another entry
\* that had been referenced more than once.
C18_Witness ==
    /\ kind = "lfu"
    /\ last.op = "Remove"
    /\ last.args.key \in last.pre.items
    /\ last.pre.onEvict
    /\ LFU_Len(c) = 1
    /\ c.evictList[1].referenceCount > 1

\* ---------------------------------------------------------------------
\* C19. Clock-Sweep scan bound: the eviction scan run by Add of a new key
\* takes at most 2 * size steps, a step being one decrement followed by
\* the advance of the hand.
C19_SweepScanBound ==
    (kind = "clocksweep" /\ last.op = "Add"
        /\ last.args.key \notin DOMAIN last.pre.items) =>
        CS_scan(last.pre, 0).steps <= 2 * last.pre.size

\* ---------------------------------------------------------------------
\* C20. WSClock scan termination: the eviction scan run by Add of a new
\* key ends after at most size advances of the hand without waiting for
\* the clock; a slot with flag 0 that has not aged is passed over, and a
\* revolution that finds no aged slot ends with a flag-0 slot replaced.
C20_WsScanTerminates ==
    (kind = "wsclock" /\ last.op = "Add"
        /\ last.args.key \notin DOMAIN last.pre.items) =>
        LET s == WS_scan(last.pre, last.pre.hand, 0)
        IN /\ s.waited = 0
           /\ s.steps <= last.pre.size

\* The keys stored in the slots of a ring.
RingKeys(o) == {o.ring[i].Key : i \in {j \in 1..o.size : o.ring[j] # NoEntry}}

\* ---------------------------------------------------------------------
\* C21. WSClock victim rule: an entry removed by the eviction scan either
\* has flag 0 and its timestamp + window in the past, or lies in the slot
\* the scan started on; no other entry leaves the cache.
C21_WsVictim ==
    (kind = "wsclock" /\ last.op = "Add"
        /\ last.args.key \notin DOMAIN last.pre.items) =>
        LET pre == last.pre
            s == WS_scan(pre, pre.hand, 0).c
            v == s.ring[s.hand]
        IN /\ v # NoEntry =>
                /\ \/ v.refCount = 0 /\ v.age > limit
                   \/ s.hand = pre.hand
                /\ RingKeys(c) = (RingKeys(pre) \ {v.Key}) \cup {last.args.key}
           /\ v = NoEntry => RingKeys(c) = RingKeys(pre) \cup {last.args.key}

\* The scan left its starting slot and evicted an aged entry with flag 0
\* from another slot.
C21_Witness ==
    /\ kind = "wsclock"
    /\ last.op = "Add"
    /\ last.args.key \notin DOMAIN last.pre.items
    /\ LET s == WS_scan(last.pre, last.pre.hand, 0).c
       IN /\ s.ring[s.hand] # NoEntry
          /\ s.hand # last.pre.hand
          /\ s.ring[s.hand].Key \notin RingKeys(c)

\* ---------------------------------------------------------------------
\* C22. Clock-family Delete frame: with no callback, Delete of an absent
\* key changes nothing; Delete of a live key removes it from the index
\* and empties its slot, Len() drops by one, Get(key) misses, and the
\* hand and every other slot are as before.
C22_RingDeleteFrame ==
    (kind \in RingKinds /\ last.op = "Delete" /\ ~last.pre.onEvict) =>
        LET pre == last.pre
            key == last.args.key
        IN /\ ~last.panic
           /\ last.cb = <<>>
           /\ IF key \notin DOMAIN pre.items
              THEN c = pre
              ELSE /\ DOMAIN c.items = DOMAIN pre.items \ {key}
                   /\ \A x \in DOMAIN c.items : c.items[x] = pre.items[x]
                   /\ c.ring[pre.items[key]] = NoEntry
                   /\ Ring_Len(c) = Ring_Len(pre) - 1
                   /\ RingGet(c, key).ret = <<Nil, FALSE>>
                   /\ c.hand = pre.hand
                   /\ c.head = pre.head
                   /\ \A i \in 1..pre.size :
                         i # pre.items[key] => c.ring[i] = pre.ring[i]

\* A live key was deleted from a full ring of two slots whose hand was not
\* on the key's slot.
C22_Witness ==
    /\ kind \in RingKinds
    /\ last.op = "Delete"
    /\ ~last.pre.onEvict
    /\ last.args.key \in DOMAIN last.pre.items
    /\ Ring_Len(last.pre) = 2
    /\ last.pre.hand # last.pre.items[last.args.key]
    /\ Ring_Len(c) = 1

\* Keys() of the clock-family engine in use.
RingKeysOf(o) ==
    IF kind = "clock" THEN Clock_Keys(o)
    ELSE IF kind = "clocksweep" THEN CS_Keys(o)
    ELSE WS_Keys(o)

\* ---------------------------------------------------------------------
\* C23. Clock-family Keys: in every reachable state Keys() returns the
\* live keys, each once, in slot order from the head with empty slots
\* skipped, so that len(Keys()) = Len().
C23_RingKeys ==
    (kind \in RingKinds /\ Alive /\ ~last.panic) =>
        /\ RingKeysOf(c) # "panic"
        /\ RingKeysOf(c) = Ring_KeysFrom(c, 1)
        /\ Len(RingKeysOf(c)) = Ring_Len(c)

\* ---------------------------------------------------------------------
\* C24. FIFO eviction order: when Add of a new key overflows a FIFO cache,
\* the entry evicted is the live key whose first insertion is the
\* earliest, whatever Get calls and re-Adds of present keys came between.
\* hist lists the live keys by first insertion, earliest first.
C24_FifoOrder ==
    [][(/\ kind = "fifo"
        /\ last'.op = "Add"
        /\ last'.args.key \notin c.items
        /\ FIFO_Len(c) = c.size)
       => /\ last'.ret = TRUE
          /\ c'.items = (c.items \ {Head(hist)}) \cup {last'.args.key}]_vars

\* ---------------------------------------------------------------------
\* C25. LRU key listing: Keys(true) lists the live keys from the most
\* recently touched to the least recently touched, Keys(false) is its
\* reverse, and Values(r) lists the values of the same entries in the
\* order of Keys(r).  hist lists the live keys by last touch, oldest first.
C25_LruListing ==
    (kind = "lru" /\ Alive) =>
        /\ LRU_Keys(c, TRUE) = Reverse(hist)
        /\ LRU_Keys(c, FALSE) = hist
        /\ LRU_Keys(c, FALSE) = Reverse(LRU_Keys(c, TRUE))
        /\ \A r \in BOOLEAN :
              /\ Len(LRU_Values(c, r)) = Len(LRU_Keys(c, r))
              /\ \A i \in 1..Len(LRU_Keys(c, r)) :
                    LRU_Peek(c, LRU_Keys(c, r)[i]).ret = <<LRU_Values(c, r)[i], TRUE>>

\* A Get of the least recently touched of two keys with different values
\* has made it the most recently touched.
C25_Witness ==
    /\ kind = "lru"
    /\ last.op = "Get"
    /\ LRU_Len(c) = 2
    /\ LRU_Keys(last.pre, FALSE)[1] = last.args.key
    /\ LRU_Keys(c, TRUE)[1] = last.args.key
    /\ LRU_Values(c, TRUE)[1] # LRU_Values(c, TRUE)[2]

\* The keys of a FIFO cache in the order in which removeFront, the
\* eviction of an overflowing Add, would take them.
RECURSIVE FIFO_EvictionOrder(_)
FIFO_EvictionOrder(o) ==
    IF FIFO_Len(o) = 0 THEN <<>>
    ELSE LET r == FIFO_removeFront(o)
         IN <<CHOOSE x \in o.items : x \notin r.c.items>> \o FIFO_EvictionOrder(r.c)

\* ---------------------------------------------------------------------
\* C26. FIFO key listing: Keys(false) lists the live keys in eviction
\* order, the next key an overflowing Add would evict first, and
\* Keys(true) lists them in the opposite order.
C26_FifoListing ==
    (kind = "fifo" /\ Alive) =>
        /\ FIFO_Keys(c, FALSE) = FIFO_EvictionOrder(c)
        /\ FIFO_Keys(c, TRUE) = Reverse(FIFO_EvictionOrder(c))

\* ---------------------------------------------------------------------
\* C27. Thread safety of 2Q and LRU-K: under every interleaving of the
\* public operations of several threads, a step that changes the state
\* of the container is taken by the thread that holds the exclusive
\* lock, while no thread holds the shared lock.
C27_MutationUnderLock ==
    [][(kind \in {"2q", "lruk"} /\ c' # c) =>
          /\ hist.readers = {}
          /\ hist.writer \in Threads
          /\ hist.pc[hist.writer] # MTIdle
          /\ hist'.pc[hist.writer] = MTIdle]_vars

\* The names under which a successful constructor call is recorded.
Constructors ==
    {"NewLRU", "NewFIFO", "NewLFU", "New2QParams", "NewLruKParams",
     "NewClock", "NewClockSweep", "NewWSClock"}

\* ---------------------------------------------------------------------
\* C28. Constructor validation: every constructor returns an error and no
\* cache, without crashing, when size <= 0; New2QParams and NewLruKParams
\* also when a ratio is outside [0, 1], and NewLruKParams when k is 0.
C28_ConstructorValidation ==
    (last.op \in Constructors \cup {"NewFailed"}) =>
        ((\/ last.args.size <= 0
          \/ kind \in {"2q", "lruk"} /\ (last.args.recentRatio < 0 \/ last.args.recentRatio > 4)
          \/ kind = "2q" /\ (last.args.ghostRatio < 0 \/ last.args.ghostRatio > 4)
          \/ kind = "lruk" /\ last.args.k = 0)
         => /\ last.op = "NewFailed"
            /\ last.ret = TRUE
            /\ c = NoCache
            /\ ~last.panic)

\* NewLruKParams was called with a positive size, a ratio in range and
\* k = 0, and returned an error.
C28_Witness ==
    /\ kind = "lruk"
    /\ last.op = "NewFailed"
    /\ last.args.size > 0
    /\ last.args.recentRatio \in Ratios
    /\ last.args.k = 0
    /\ c = NoCache

\* ---------------------------------------------------------------------
\* C29. No duplicates in LRU and FIFO: the key index and the ordering
\* list hold the same set of keys, each key at exactly one position of
\* the list, so that len(Keys(r)) = Len() = the number of distinct live
\* keys, re-adds of present keys included.
C29_NoDuplicates ==
    (kind \in {"lru", "fifo"} /\ Alive) =>
        /\ SeqToSet(ListKeys(c.evictList)) = c.items
        /\ \A i, j \in 1..Len(c.evictList) :
              c.evictList[i].Key = c.evictList[j].Key => i = j
        /\ \A r \in BOOLEAN :
              /\ Len(KeysOf(c, r)) = Cardinality(c.items)
              /\ Len(KeysOf(c, r)) = (IF kind = "lru" THEN LRU_Len(c) ELSE FIFO_Len(c))
              /\ SeqToSet(KeysOf(c, r)) = c.items

\* A key present in a cache of two entries was added again.
C29_Witness ==
    /\ kind \in {"lru", "fifo"}
    /\ last.op = "Add"
    /\ last.args.key \in last.pre.items
    /\ Cardinality(last.pre.items) = 2
    /\ Cardinality(c.items) = 2

\* ---------------------------------------------------------------------
\* C30. 2Q space rule for a brand-new key: Add of a key that is in none
\* of recent, frequent and the ghost list evicts nothing when
\* len(recent) + len(frequent) < size; otherwise it evicts exactly one
\* entry before the insert: recent's oldest, which moves into the ghost
\* list, when recent is non-empty and len(recent) >= recentSize, else
\* frequent's oldest, which is dropped and not put in the ghost list.
C30_TwoQueueSpace ==
    (/\ kind = "2q"
     /\ last.op = "Add"
     /\ last.args.key \notin last.pre.recent.items \cup last.pre.frequent.items
                             \cup last.pre.recentEvict.items) =>
        LET pre == last.pre
            key == last.args.key
            recentLen == LRU_Len(pre.recent)
            freqLen == LRU_Len(pre.frequent)
        IN IF recentLen + freqLen < pre.size
           THEN /\ c.recent.items = pre.recent.items \cup {key}
                /\ c.frequent.items = pre.frequent.items
                /\ c.recentEvict.items = pre.recentEvict.items
           ELSE IF recentLen > 0 /\ recentLen >= pre.recentSize
           THEN LET v == Back(pre.recent.evictList).Key
                IN /\ c.recent.items = (pre.recent.items \ {v}) \cup {key}
                   /\ c.frequent.items = pre.frequent.items
                   /\ v \in c.recentEvict.items
           ELSE /\ freqLen > 0
                /\ LET v == Back(pre.frequent.evictList).Key
                   IN /\ c.frequent.items = pre.frequent.items \ {v}
                      /\ c.recent.items = pre.recent.items \cup {key}
                      /\ v \notin c.recentEvict.items
                      /\ c.recentEvict.items = pre.recentEvict.items

\* A brand-new key was added to a full cache and pushed recent's oldest
\* entry into the ghost list.
C30_Witness ==
    /\ kind = "2q"
    /\ last.op = "Add"
    /\ last.args.key \notin last.pre.recent.items \cup last.pre.frequent.items
                            \cup last.pre.recentEvict.items
    /\ TQ_Len(last.pre) >= last.pre.size
    /\ LRU_Len(last.pre.recent) > 0
    /\ LRU_Len(last.pre.frequent) > 0
    /\ Back(last.pre.recent.evictList).Key \in c.recentEvict.items

\* ---------------------------------------------------------------------
\* C31. 2Q ghost capacity: in every reachable state, after a successful
\* Resize too, the ghost list holds at most floor(size * ghostRatio) keys
\* for the current size.
C31_GhostCapacity ==
    (kind = "2q" /\ Alive) =>
        LRU_Len(c.recentEvict) <= SubSize(c.size, c.ghostRatio)

\* ---------------------------------------------------------------------
\* C32. 2Q Get never consults the ghost list: Get of a key that is in
\* neither recent nor frequent, in the ghost list or not, returns
\* not-found and leaves recent, frequent and the ghost list unchanged.
C32_GetIgnoresGhost ==
    (/\ kind = "2q"
     /\ last.op = "Get"
     /\ last.args.key \notin last.pre.recent.items \cup last.pre.frequent.items) =>
        /\ last.ret = <<Nil, FALSE>>
        /\ last.cb = <<>>
        /\ c = last.pre

\* Get missed a key that was in the ghost list.
C32_Witness ==
    /\ kind = "2q"
    /\ last.op = "Get"
    /\ last.args.key \in last.pre.recentEvict.items
    /\ last.args.key \notin last.pre.recent.items \cup last.pre.frequent.items
    /\ last.ret = <<Nil, FALSE>>

\* ---------------------------------------------------------------------
\* C33. 2Q key listing: Keys(r) is frequent's Keys(r) followed by recent's
\* Keys(r) and Values(r) likewise, so every frequent key precedes every
\* recent key, the values are those of the keys in the same positions, and
\* the listing has exactly Len() elements.
C33_TwoQueueListing ==
    (kind = "2q" /\ Alive) =>
        \A r \in BOOLEAN :
            LET ks == TQ_Keys(c, r)
                vs == TQ_Values(c, r)
                nf == LRU_Len(c.frequent)
            IN /\ Len(ks) = TQ_Len(c)
               /\ Len(vs) = TQ_Len(c)
               /\ [i \in 1..nf |-> ks[i]] = LRU_Keys(c.frequent, r)
               /\ [i \in 1..(Len(ks) - nf) |-> ks[nf + i]] = LRU_Keys(c.recent, r)
               /\ [i \in 1..nf |-> vs[i]] = LRU_Values(c.frequent, r)
               /\ [i \in 1..(Len(vs) - nf) |-> vs[nf + i]] = LRU_Values(c.recent, r)
               /\ \A i, j \in 1..Len(ks) :
                     (ks[i] \in c.frequent.items /\ ks[j] \in c.recent.items) => i < j
               /\ \A i \in 1..Len(ks) : TQ_Peek(c, ks[i]).ret = <<vs[i], TRUE>>

\* A Get has promoted a key to frequent while another key, with a different
\* value, stays in recent: the listing starts with the promoted key.
C33_Witness ==
    /\ kind = "2q"
    /\ last.op = "Get"
    /\ last.args.key \in last.pre.recent.items
    /\ LRU_Len(c.frequent) = 1
    /\ LRU_Len(c.recent) = 1
    /\ TQ_Keys(c, TRUE)[1] = last.args.key
    /\ TQ_Values(c, TRUE)[1] # TQ_Values(c, TRUE)[2]

\* The slot under the hand after j advances from the hand of o.
Clock_SlotAt(o, j) == ((o.hand - 1 + j) % o.size) + 1

\* How many of the first n advances from the hand of o left slot i.
Clock_Passes(o, n, i) == Cardinality({j \in 0..(n - 1) : Clock_SlotAt(o, j) = i})

C35_Disjoint ==
    /\ (kind = "2q" /\ Alive) =>
          /\ c.recent.items \cap c.frequent.items = {}
          /\ c.recent.items \cap c.recentEvict.items = {}
          /\ c.frequent.items \cap c.recentEvict.items = {}
    /\ (kind = "lruk" /\ Alive) =>
          c.recent.items \cap c.frequent.items = {}

\* Add of a key of the ghost list has moved it to frequent while recent and
\* the ghost list hold other keys.
C35_Witness ==
    /\ kind = "2q"
    /\ last.op = "Add"
    /\ last.args.key \in last.pre.recentEvict.items
    /\ last.args.key \in c.frequent.items
    /\ c.recent.items # {}
    /\ c.recentEvict.items # {}

\* ---------------------------------------------------------------------
\* C36. Clock-family eviction only when full: in Clock, Clock-Sweep and
\* WSClock, Add of a new key to a cache with an empty slot (Len() < size)
\* makes Len() grow by one and loses no live key.
C36_EvictOnlyWhenFull ==
    (/\ kind \in RingKinds
     /\ last.op = "Add"
     /\ last.args.key \notin DOMAIN last.pre.items
     /\ Ring_Len(last.pre) < last.pre.size) =>
        /\ Ring_Len(c) = Ring_Len(last.pre) + 1
        /\ DOMAIN last.pre.items \subseteq DOMAIN c.items

\* ---------------------------------------------------------------------
\* C37. LRU-K counter hygiene: in every reachable state cnt has an entry
\* only for keys that are in recent, and every stored count is at least 1
\* and below k.
C37_CounterHygiene ==
    (kind = "lruk" /\ Alive) =>
        /\ DOMAIN c.cnt \subseteq c.recent.items
        /\ \A key \in DOMAIN c.cnt : 1 <= c.cnt[key] /\ c.cnt[key] < c.k

\* ---------------------------------------------------------------------
\* C38. Clock-family Delete with a callback registered: Delete of a live
\* key completes without a runtime failure and leaves the key removed, its
\* slot empty and the other entries in place.
C38_DeleteWithCallback ==
    (/\ kind \in RingKinds
     /\ last.op = "Delete"
     /\ last.pre.onEvict
     /\ last.args.key \in DOMAIN last.pre.items) =>
        /\ ~last.panic
        /\ DOMAIN c.items = DOMAIN last.pre.items \ {last.args.key}
        /\ c.ring[last.pre.items[last.args.key]] = NoEntry
        /\ Ring_Len(c) = Ring_Len(last.pre) - 1

\* ---------------------------------------------------------------------
\* C39. 2Q construction succeeds for every valid input: New2QParams with
\* size > 0 and both ratios in [0, 1], the defaults of New2Q and a ghost
\* ratio of 0 among them, returns a cache and no error.
C39_TwoQueueConstruction ==
    (/\ kind = "2q"
     /\ last.op \in {"New2QParams", "NewFailed"}
     /\ last.args.size > 0
     /\ last.args.recentRatio \in Ratios
     /\ last.args.ghostRatio \in Ratios) =>
        /\ last.op = "New2QParams"
        /\ last.ret = FALSE
        /\ c # NoCache
        /\ TQ_Len(c) = 0

\* ---------------------------------------------------------------------
\* C40. LFU heap integrity: after every Add, Get and Remove, with or
\* without a callback, no entry of the priority queue is referenced less
\* often than its parent, or as often and longer ago; every entry's stored
\* index is its position, so every index handed to heap.Fix and heap.Remove
\* is in range; the key index holds exactly the keys of the queue, each
\* once.  Get on a miss changes nothing, and Get on a hit raises the count
\* of that entry by one and no other count.
C40_LfuHeap ==
    (kind = "lfu" /\ Alive) =>
        LET q == c.evictList
        IN /\ \A i \in 2..Len(q) : ~LFU_Before(q[i], q[i \div 2])
           /\ \A i \in 1..Len(q) : q[i].index = i - 1
           /\ {q[i].Key : i \in 1..Len(q)} = c.items
           /\ \A i, j \in 1..Len(q) : q[i].Key = q[j].Key => i = j
           /\ Len(q) <= c.size
           /\ (last.op = "Get" /\ last.args.key \notin last.pre.items) =>
                 /\ c = last.pre
                 /\ last.ret = <<Nil, FALSE>>
           /\ (last.op = "Get" /\ last.args.key \in last.pre.items) =>
                 /\ c.items = last.pre.items
                 /\ last.ret = <<LFU_EntryOf(last.pre, last.args.key).Val, TRUE>>
                 /\ \A k \in c.items :
                       /\ LFU_EntryOf(c, k).Val = LFU_EntryOf(last.pre, k).Val
                       /\ LFU_EntryOf(c, k).referenceCount =
                             LFU_EntryOf(last.pre, k).referenceCount
                                 + (IF k = last.args.key THEN 1 ELSE 0)

\* A Get hit on the root of a heap of three entries has moved it below one
\* of its children.
C40_Witness ==
    /\ kind = "lfu"
    /\ last.op = "Get"
    /\ Len(last.pre.evictList) = 3
    /\ last.pre.evictList[1].Key = last.args.key
    /\ c.evictList[1].Key # last.args.key
    /\ last.ret[2]

====
